---------------------------- MODULE Spec2Model ----------------------------
(***************************************************************************)
(* A model of the multi-organisation finance server: the debt routes of    *)
(* server/routers.ts over the debts / debtPayments tables of server/db.ts, *)
(* and the shareholding queries of server/hypergraph-db.ts.                *)
(*                                                                         *)
(* Tables are modelled as the MySQL tables of drizzle/schema.ts: a table   *)
(* with an AUTO_INCREMENT key is a function from the ids of its rows to    *)
(* the rows (debts) or a sequence in insertion order whose index is the id *)
(* (debtPayments, shareholding).  Money is an integer number of cents.     *)
(***************************************************************************)
EXTENDS Integers, Sequences, FiniteSets, TLC

VARIABLES
    debts,          \* table debts: id -> row, for the ids that have a row
    nextDebtId,     \* AUTO_INCREMENT counter of debts
    debtPayments,   \* table debtPayments, in insertion order (index = id)
    response,       \* what the last handler returned to its caller
    pc,             \* per caller: the await an addPayment call is suspended at
    call,           \* per caller: the input and the local `debt` of its latest call
    initialRemaining, \* history: remainingAmount each debt was created with
    organizations,  \* table organizations: id -> row, for the ids that have a row
    nextOrgId,      \* AUTO_INCREMENT counter of organizations
    shareholding,   \* table shareholding, in insertion order (index = id)
    relationships,  \* table relationships, in insertion order (index = id)
    hypergraphNodes,      \* table hypergraph_nodes (index = id)
    hypergraphHyperedges, \* table hypergraph_hyperedges (index = id)
    hypergraphIncidences, \* table hypergraph_incidences (index = id)
    stocks,         \* table stocks, in insertion order (index = id)
    flows,          \* table flows, in insertion order (index = id)
    db,             \* _db, the cached handle of getDb(): "drizzle" or "null"
    databaseUrl,    \* whether process.env.DATABASE_URL is set to a usable URL
    storeUp,        \* whether the MySQL server behind the handle answers
    now             \* the MySQL server's CURRENT_TIMESTAMP, in seconds

orgVars == <<organizations, nextOrgId, shareholding>>
debtVars == <<debts, nextDebtId, debtPayments, pc, call>>
netVars == <<relationships, hypergraphNodes, hypergraphHyperedges,
             hypergraphIncidences, stocks, flows>>
envVars == <<databaseUrl, storeUp, now>>
vars == <<debts, nextDebtId, debtPayments, response, pc, call, initialRemaining,
          organizations, nextOrgId, shareholding, relationships, hypergraphNodes,
          hypergraphHyperedges, hypergraphIncidences, stocks, flows, db, databaseUrl,
          storeUp, now>>

-----------------------------------------------------------------------------
(* Bounds of the model *)

\* all debt routes, one request at a time (Spec)
MaxDebts == 1
MaxPayments == 1
\* debts created and paid on, one request at a time (SpecPay)
MaxDebtsPaid == 2
MaxPaymentsMade == 2
\* debts created and paid on by two callers at once (SpecRace)
MaxDebtsRaced == 1
MaxPaymentsRaced == 2
\* shareholding rows created before ownership is queried (SpecOwn)
MaxShares == 2
\* shareholding rows of 40% and 60% created before ownership is queried
\* (SpecPaths)
MaxSharesOnPaths == 3
\* relationships rows created (SpecRel)
MaxRelationships == 2
\* hypergraph_incidences rows created (SpecHyper)
MaxIncidences == 2
\* flows rows created (SpecStock)
MaxFlows == 2

\* z.number(): any number, negative ones included (no .min/.nonnegative)
OriginalAmounts == {1, 2}
RemainingAmounts == {-1, 0, 2}
PaymentAmounts == {-1, 0, 1, 2}
Statuses == {"active", "paid", "overdue"}
Callers == {"c1", "c2"}

Max(a, b) == IF a >= b THEN a ELSE b

-----------------------------------------------------------------------------
(* server/db.ts: the debt helpers, as functions of the tables *)

\* getDb(): if (!_db && process.env.DATABASE_URL) _db = drizzle(url); return _db.
\* The handle is made without a round trip to the server and is kept for the
\* life of the process.  The value is the new _db, which is also what the
\* call returns.
getDb(cached, url) ==
    IF cached = "null" /\ url THEN "drizzle" ELSE cached

\* db.insert(debts).values(data): a new row under the next AUTO_INCREMENT id;
\* updatedAt timestamp DEFAULT (now()) is filled in by the server
createDebt(tbl, id, data, time) ==
    [i \in DOMAIN tbl \cup {id} |->
        IF i = id
        THEN [f \in DOMAIN data \cup {"updatedAt"} |->
                 IF f = "updatedAt" THEN time ELSE data[f]]
        ELSE tbl[i]]

\* select ... where id = ? limit 1; result[0] is undefined when no row matches.
\* The result is the sequence of matching rows (at most one).
getDebtById(tbl, id) ==
    IF id \in DOMAIN tbl THEN <<tbl[id]>> ELSE <<>>

\* UPDATE ... SET on one row: the fields present in data are overwritten, the
\* others kept; updatedAt timestamp ON UPDATE CURRENT_TIMESTAMP is set to the
\* server's time when the statement changes the value of some other column
setDebtRow(row, data, time) ==
    LET set == [f \in DOMAIN row |->
                   IF f \in DOMAIN data THEN data[f] ELSE row[f]]
    IN IF set = row THEN row
       ELSE [f \in DOMAIN row |->
                IF f = "updatedAt" /\ f \notin DOMAIN data THEN time ELSE set[f]]

\* Variant: the update without its WHERE id = ?, applied to every row
updateDebtEveryRow(tbl, id, data, time) ==
    [i \in DOMAIN tbl |-> setDebtRow(tbl[i], data, time)]

\* db.update(debts).set(data).where(id = ?); no row with that id: nothing
\* changes.
updateDebt(tbl, id, data, time) ==
    [i \in DOMAIN tbl |->
        IF i = id THEN setDebtRow(tbl[i], data, time) ELSE tbl[i]]

\* db.delete(debts).where(id = ?)
deleteDebt(tbl, id) ==
    [i \in DOMAIN tbl \ {id} |-> tbl[i]]

\* Variant: a foreign key debtPayments.debtId -> debts.id ON DELETE CASCADE
debtPaymentsOnDeleteDebtCascade(payments, id) ==
    SelectSeq(payments, LAMBDA p : p.debtId # id)

\* What deleting a debt does to debtPayments: the debtPayments table of the
\* drizzle migration carries no foreign key, so nothing.
debtPaymentsOnDeleteDebt(payments, id) ==
    payments

\* db.insert(debtPayments).values(data)
createDebtPayment(payments, data) ==
    Append(payments, [debtId |-> data.debtId, amount |-> data.amount])

-----------------------------------------------------------------------------
(* server/routers.ts: debts.addPayment's computation *)

\* Variant: the subtraction without Math.max(0, ...)
newRemainingUnclamped(debt, input) ==
    debt.remainingAmount - input.amount

\* Variant: the payment is taken off the original amount
newRemainingFromOriginal(debt, input) ==
    Max(0, debt.originalAmount - input.amount)

\* Math.max(0, debt.remainingAmount - input.amount)
newRemaining(debt, input) ==
    Max(0, debt.remainingAmount - input.amount)

\* Variant: the status is never set to "paid"
newStatusKept(debt, input) ==
    debt.status

\* Variant: a debt with a balance left is set back to "active"
newStatusReactivated(debt, input) ==
    IF debt.remainingAmount - input.amount <= 0 THEN "paid" ELSE "active"

\* newRemaining === 0 ? "paid" : debt.status
newStatus(debt, input) ==
    IF newRemaining(debt, input) = 0 THEN "paid" ELSE debt.status

\* the object handed to updateDebt
paymentUpdate(debt, input) ==
    [remainingAmount |-> newRemaining(debt, input),
     status |-> newStatus(debt, input)]

-----------------------------------------------------------------------------
(* Inputs of the routes *)

CreateInputs ==
    [originalAmount : OriginalAmounts, remainingAmount : RemainingAmounts,
     status : Statuses]

\* debts.update: every field is optional; the inputs are the one-field
\* updates and the update of remainingAmount and status together
UpdateInputs ==
    [originalAmount : OriginalAmounts]
    \cup [remainingAmount : RemainingAmounts]
    \cup [status : Statuses]
    \cup [remainingAmount : RemainingAmounts, status : Statuses]

AddPaymentInputs == [debtId : 1..(MaxDebts + 1), amount : PaymentAmounts]

NoCall == [debtId |-> 0, amount |-> 0, debt |-> <<>>]

-----------------------------------------------------------------------------
(* The handlers, each run to completion (one request at a time) *)

DbResult == [kind |-> "db"]

\* debts.create
DebtsCreate(input) ==
    /\ debts' = createDebt(debts, nextDebtId, input, now)
    /\ nextDebtId' = nextDebtId + 1
    /\ response' = DbResult
    /\ UNCHANGED <<debtPayments, pc, call, orgVars, netVars, envVars>>
    /\ db' = getDb(db, databaseUrl)

\* debts.update
DebtsUpdate(id, data) ==
    /\ debts' = updateDebt(debts, id, data, now)
    /\ response' = DbResult
    /\ UNCHANGED <<nextDebtId, debtPayments, pc, call, orgVars, netVars, envVars>>
    /\ db' = getDb(db, databaseUrl)

\* debts.delete
DebtsDelete(id) ==
    /\ debts' = deleteDebt(debts, id)
    /\ debtPayments' = debtPaymentsOnDeleteDebt(debtPayments, id)
    /\ response' = DbResult
    /\ UNCHANGED <<nextDebtId, pc, call, orgVars, netVars, envVars>>
    /\ db' = getDb(db, databaseUrl)

\* Variant: the debt is looked up first and a missing debt is an error
DebtsAddPaymentNotFound(input) ==
    LET debt == getDebtById(debts, input.debtId) IN
    /\ debtPayments' = IF debt # <<>>
                       THEN Append(debtPayments,
                                   [debtId |-> input.debtId, amount |-> input.amount])
                       ELSE debtPayments
    /\ debts' = IF debt # <<>>
                THEN updateDebt(debts, input.debtId,
                                [remainingAmount |->
                                    Max(0, debt[1].remainingAmount - input.amount),
                                 status |->
                                    IF debt[1].remainingAmount - input.amount <= 0
                                    THEN "paid" ELSE debt[1].status],
                                now)
                ELSE debts
    /\ response' = IF debt # <<>>
                   THEN [kind |-> "addPayment", success |-> TRUE]
                   ELSE [kind |-> "error", success |-> FALSE]
    /\ UNCHANGED <<nextDebtId, pc, call, orgVars, netVars, envVars>>
    /\ db' = getDb(db, databaseUrl)

\* debts.addPayment, without another request in between
DebtsAddPayment(input) ==
    LET debt == getDebtById(debts, input.debtId) IN
    /\ debtPayments' = createDebtPayment(debtPayments, input)
    /\ debts' = IF debt # <<>>
                THEN updateDebt(debts, input.debtId, paymentUpdate(debt[1], input), now)
                ELSE debts
    /\ response' = [kind |-> "addPayment", success |-> TRUE]
    /\ UNCHANGED <<nextDebtId, pc, call, orgVars, netVars, envVars>>
    /\ db' = getDb(db, databaseUrl)

-----------------------------------------------------------------------------
Init ==
    /\ debts = <<>>
    /\ nextDebtId = 1
    /\ debtPayments = <<>>
    /\ response = [kind |-> "none"]
    /\ pc = [c \in Callers |-> "idle"]
    /\ call = [c \in Callers |-> NoCall]
    /\ initialRemaining = <<>>
    /\ organizations = <<>>
    /\ nextOrgId = 1
    /\ shareholding = <<>>
    /\ relationships = <<>>
    /\ hypergraphNodes = <<>>
    /\ hypergraphHyperedges = <<>>
    /\ hypergraphIncidences = <<>>
    /\ stocks = <<>>
    /\ flows = <<>>
    /\ db = "null"
    /\ databaseUrl = TRUE
    /\ storeUp = TRUE
    /\ now = 0

Create == \E input \in CreateInputs :
    /\ nextDebtId <= MaxDebts
    /\ DebtsCreate(input)
    /\ UNCHANGED initialRemaining

Update == \E id \in 1..MaxDebts, data \in UpdateInputs :
    DebtsUpdate(id, data) /\ UNCHANGED initialRemaining

Delete == \E id \in 1..MaxDebts :
    DebtsDelete(id) /\ UNCHANGED initialRemaining

AddPayment == \E input \in AddPaymentInputs :
    /\ Len(debtPayments) < MaxPayments
    /\ DebtsAddPayment(input)
    /\ UNCHANGED initialRemaining

Next == Create \/ Update \/ Delete \/ AddPayment

Spec == Init /\ [][Next]_vars

-----------------------------------------------------------------------------
(* Payments only: debts are created and then paid on with positive amounts,   *)
(* one request at a time.  initialRemaining remembers what each debt was      *)
(* created with.                                                              *)

\* debts.create, remembering the remainingAmount the debt starts with
CreateRecorded(input) ==
    /\ DebtsCreate(input)
    /\ initialRemaining' =
          [i \in DOMAIN initialRemaining \cup {nextDebtId} |->
              IF i = nextDebtId THEN input.remainingAmount ELSE initialRemaining[i]]

PayCreate == \E input \in CreateInputs :
    /\ nextDebtId <= MaxDebtsPaid
    /\ CreateRecorded(input)

PayExisting == \E id \in DOMAIN debts, amount \in PaymentAmounts :
    /\ Len(debtPayments) < MaxPaymentsMade
    /\ amount > 0
    /\ DebtsAddPayment([debtId |-> id, amount |-> amount])
    /\ UNCHANGED initialRemaining

NextPay == PayCreate \/ PayExisting

SpecPay == Init /\ [][NextPay]_vars

-----------------------------------------------------------------------------
(* debts.addPayment as it runs: the handler is suspended at each await, and   *)
(* another caller's handler may run in between (no transaction).              *)

\* Variant: the row is read again inside the write (an atomic decrement)
AddPaymentUpdateDebtAtomic(c) ==
    /\ pc[c] = "updateDebt"
    /\ debts' = IF call[c].debtId \in DOMAIN debts
                THEN updateDebt(debts, call[c].debtId,
                                paymentUpdate(debts[call[c].debtId], call[c]), now)
                ELSE debts
    /\ pc' = [pc EXCEPT ![c] = "idle"]
    /\ UNCHANGED call
    /\ response' = [kind |-> "addPayment", success |-> TRUE]
    /\ UNCHANGED <<nextDebtId, debtPayments, orgVars, netVars, envVars>>
    /\ db' = getDb(db, databaseUrl)

\* await db.createDebtPayment(input)
AddPaymentCreateDebtPayment(c, input) ==
    /\ pc[c] = "idle"
    /\ debtPayments' = createDebtPayment(debtPayments, input)
    /\ call' = [call EXCEPT ![c] =
                   [debtId |-> input.debtId, amount |-> input.amount, debt |-> <<>>]]
    /\ pc' = [pc EXCEPT ![c] = "getDebtById"]
    /\ UNCHANGED <<debts, nextDebtId, response, orgVars, netVars, envVars>>
    /\ db' = getDb(db, databaseUrl)

\* const debt = await db.getDebtById(input.debtId); if (debt) ... else return
AddPaymentGetDebtById(c) ==
    LET debt == getDebtById(debts, call[c].debtId) IN
    /\ pc[c] = "getDebtById"
    /\ IF debt # <<>>
       THEN /\ call' = [call EXCEPT ![c].debt = debt]
            /\ pc' = [pc EXCEPT ![c] = "updateDebt"]
            /\ UNCHANGED response
       ELSE /\ pc' = [pc EXCEPT ![c] = "idle"]
            /\ UNCHANGED call
            /\ response' = [kind |-> "addPayment", success |-> TRUE]
    /\ UNCHANGED <<debts, nextDebtId, debtPayments, orgVars, netVars, envVars>>
    /\ db' = getDb(db, databaseUrl)

\* await db.updateDebt(input.debtId, {newRemaining, newStatus}), computed from
\* the debt this call read; return { success: true }
AddPaymentUpdateDebt(c) ==
    /\ pc[c] = "updateDebt"
    /\ debts' = updateDebt(debts, call[c].debtId,
                           paymentUpdate(call[c].debt[1], call[c]), now)
    /\ pc' = [pc EXCEPT ![c] = "idle"]
    /\ UNCHANGED call
    /\ response' = [kind |-> "addPayment", success |-> TRUE]
    /\ UNCHANGED <<nextDebtId, debtPayments, orgVars, netVars, envVars>>
    /\ db' = getDb(db, databaseUrl)

\* addPayment never reads originalAmount: the raced debts all start from 2
RaceCreateInputs == {input \in CreateInputs : input.originalAmount = 2}

RaceCreate == \E input \in RaceCreateInputs :
    /\ nextDebtId <= MaxDebtsRaced
    /\ DebtsCreate(input)
    /\ UNCHANGED initialRemaining

RaceCreateDebtPayment ==
    \E c \in Callers, id \in 1..MaxDebtsRaced, amount \in PaymentAmounts :
        /\ Len(debtPayments) < MaxPaymentsRaced
        /\ AddPaymentCreateDebtPayment(c, [debtId |-> id, amount |-> amount])
        /\ UNCHANGED initialRemaining

RaceGetDebtById == \E c \in Callers :
    AddPaymentGetDebtById(c) /\ UNCHANGED initialRemaining

RaceUpdateDebt == \E c \in Callers :
    AddPaymentUpdateDebt(c) /\ UNCHANGED initialRemaining

NextRace ==
    RaceCreate \/ RaceCreateDebtPayment \/ RaceGetDebtById \/ RaceUpdateDebt

SpecRace == Init /\ [][NextRace]_vars

-----------------------------------------------------------------------------
(* server/hypergraph-db.ts: shareholding and effective ownership *)

\* basis points: 10000 = 100%
BasisPoints == 10000
\* WHERE oc.effectiveOwnership >= 100
MinEffectiveOwnership == 100
\* maxDepth: number = 10
DefaultMaxDepth == 10

\* db.insert(organizations).values(data)
createOrganization(tbl, id, data) ==
    [i \in DOMAIN tbl \cup {id} |-> IF i = id THEN data ELSE tbl[i]]

\* db.insert(shareholding).values(share)
createShareholding(tbl, share) ==
    Append(tbl, [childOrgId |-> share.childOrgId,
                 parentOrgId |-> share.parentOrgId,
                 sharePercentage |-> share.sharePercentage])

\* Variant: the recursive member takes the edge's own percentage
chainOwnershipOfEdge(effectiveOwnership, sharePercentage) ==
    sharePercentage

\* Variant: the ownership of the chain and the percentage of the holding
\* added instead of multiplied
chainOwnershipAdded(effectiveOwnership, sharePercentage) ==
    effectiveOwnership + sharePercentage

\* (oc.effectiveOwnership * s.sharePercentage / 10000) AS effectiveOwnership.
\* MySQL's / is exact decimal division, and a recursive CTE's column has the
\* type of its non-recursive member, here the INT of sharePercentage: the
\* quotient is stored rounded to the nearest integer (half away from zero;
\* the operands are not negative).
chainOwnership(effectiveOwnership, sharePercentage) ==
    (2 * effectiveOwnership * sharePercentage + BasisPoints) \div (2 * BasisPoints)

\* the rows of a sequence of sequences, one after the other
RECURSIVE Flatten(_)
Flatten(seqs) ==
    IF seqs = <<>> THEN <<>> ELSE Head(seqs) \o Flatten(Tail(seqs))

\* The non-recursive member: SELECT ... FROM shareholding
\* WHERE parentOrgId = ${parentOrgId}, depth 1, chain 'parent->child'
chainAnchor(tbl, parentOrgId) ==
    Flatten([i \in 1..Len(tbl) |->
        IF tbl[i].parentOrgId = parentOrgId
        THEN << [childOrgId |-> tbl[i].childOrgId,
                 parentOrgId |-> tbl[i].parentOrgId,
                 sharePercentage |-> tbl[i].sharePercentage,
                 effectiveOwnership |-> tbl[i].sharePercentage,
                 depth |-> 1,
                 chain |-> <<tbl[i].parentOrgId, tbl[i].childOrgId>>] >>
        ELSE <<>>])

\* Variant: the recursive member leaves out a holding whose child is already
\* on the chain (cycle detection)
chainStepAcyclic(tbl, previous, maxDepth) ==
    Flatten([i \in 1..Len(tbl) |->
        Flatten([j \in 1..Len(previous) |->
            IF /\ tbl[i].parentOrgId = previous[j].childOrgId
               /\ previous[j].depth < maxDepth
               /\ \A k \in 1..Len(previous[j].chain) :
                     previous[j].chain[k] # tbl[i].childOrgId
            THEN << [childOrgId |-> tbl[i].childOrgId,
                     parentOrgId |-> previous[j].parentOrgId,
                     sharePercentage |-> tbl[i].sharePercentage,
                     effectiveOwnership |->
                         chainOwnership(previous[j].effectiveOwnership,
                                        tbl[i].sharePercentage),
                     depth |-> previous[j].depth + 1,
                     chain |-> Append(previous[j].chain, tbl[i].childOrgId)] >>
            ELSE <<>>])])

\* The recursive member applied to the rows of the previous round:
\* FROM shareholding s INNER JOIN ownership_chain oc
\*   ON s.parentOrgId = oc.childOrgId WHERE oc.depth < ${maxDepth}
chainStep(tbl, previous, maxDepth) ==
    Flatten([i \in 1..Len(tbl) |->
        Flatten([j \in 1..Len(previous) |->
            IF /\ tbl[i].parentOrgId = previous[j].childOrgId
               /\ previous[j].depth < maxDepth
            THEN << [childOrgId |-> tbl[i].childOrgId,
                     parentOrgId |-> previous[j].parentOrgId,
                     sharePercentage |-> tbl[i].sharePercentage,
                     effectiveOwnership |->
                         chainOwnership(previous[j].effectiveOwnership,
                                        tbl[i].sharePercentage),
                     depth |-> previous[j].depth + 1,
                     chain |-> Append(previous[j].chain, tbl[i].childOrgId)] >>
            ELSE <<>>])])

\* WITH RECURSIVE ... UNION ALL: the recursive member is applied to the rows
\* of the round before until a round adds no row
RECURSIVE chainRounds(_, _, _)
chainRounds(tbl, round, maxDepth) ==
    IF round = <<>> THEN <<>>
    ELSE round \o chainRounds(tbl, chainStep(tbl, round, maxDepth), maxDepth)

\* the CTE ownership_chain
ownershipChain(tbl, parentOrgId, maxDepth) ==
    chainRounds(tbl, chainAnchor(tbl, parentOrgId), maxDepth)

\* ORDER BY oc.effectiveOwnership DESC: rows with equal ownership stay in the
\* order the chain produced them (an insertion sort)
RECURSIVE InsertByOwnership(_, _)
InsertByOwnership(row, sorted) ==
    IF sorted = <<>> THEN <<row>>
    ELSE IF Head(sorted).effectiveOwnership >= row.effectiveOwnership
         THEN <<Head(sorted)>> \o InsertByOwnership(row, Tail(sorted))
         ELSE <<row>> \o sorted

\* Variant: no ORDER BY, the rows stay in the order of the chain
chainOrderKept(rows) ==
    rows

RECURSIVE orderByOwnershipDesc(_)
orderByOwnershipDesc(rows) ==
    IF rows = <<>> THEN <<>>
    ELSE InsertByOwnership(Head(rows), orderByOwnershipDesc(Tail(rows)))

\* Variant: one row per descendant, the strongest chain of each
getEffectiveOwnershipPerDescendant(tbl, orgs, parentOrgId, maxDepth) ==
    LET selected ==
            SelectSeq(ownershipChain(tbl, parentOrgId, maxDepth),
                      LAMBDA oc : /\ oc.childOrgId \in DOMAIN orgs
                                  /\ oc.effectiveOwnership >= MinEffectiveOwnership)
        projected ==
            [k \in 1..Len(selected) |->
                [childOrgId |-> selected[k].childOrgId,
                 effectiveOwnership |-> selected[k].effectiveOwnership,
                 depth |-> selected[k].depth,
                 chain |-> selected[k].chain]]
        ordered == orderByOwnershipDesc(projected)
        first(k) == \A j \in 1..(k - 1) : ordered[j].childOrgId # ordered[k].childOrgId
        RECURSIVE kept(_)
        kept(k) ==
            IF k > Len(ordered) THEN <<>>
            ELSE (IF first(k) THEN <<ordered[k]>> ELSE <<>>) \o kept(k + 1)
    IN kept(1)

\* SELECT oc.childOrgId, o.name, oc.effectiveOwnership, oc.depth, oc.chain
\* FROM ownership_chain oc JOIN organizations o ON oc.childOrgId = o.id
\* WHERE oc.effectiveOwnership >= 100 ORDER BY oc.effectiveOwnership DESC
\* (childName is the organization's name, which the model does not carry)
getEffectiveOwnership(tbl, orgs, parentOrgId, maxDepth) ==
    LET selected ==
            SelectSeq(ownershipChain(tbl, parentOrgId, maxDepth),
                      LAMBDA oc : /\ oc.childOrgId \in DOMAIN orgs
                                  /\ oc.effectiveOwnership >= MinEffectiveOwnership)
        projected ==
            [k \in 1..Len(selected) |->
                [childOrgId |-> selected[k].childOrgId,
                 effectiveOwnership |-> selected[k].effectiveOwnership,
                 depth |-> selected[k].depth,
                 chain |-> selected[k].chain]]
    IN orderByOwnershipDesc(projected)

-----------------------------------------------------------------------------
(* server/routers.ts: organizations.create and the hypergraph routes *)

\* the organizations of the inputs: A = 1, B = 2, C = 3
OrgIds == {1, 2, 3}
\* percentages in basis points, one of them over 100%
SharePercentages == {75, 4000, 6000, 10000, 10001}
\* an organization does not hold shares of itself in these inputs
ShareholdingInputs ==
    {share \in [childOrgId : OrgIds, parentOrgId : OrgIds,
                sharePercentage : SharePercentages] :
        share.childOrgId # share.parentOrgId}
\* the organization queried is A: the shareholding inputs name every
\* organization as parent and as child, so the others add nothing but renaming
QueriedOrgIds == {1}
\* maxDepth: z.number().optional(), any number; <<>> is an absent maxDepth
MaxDepthInputs == {<<>>, <<0>>, <<1>>, <<2>>}

\* organizations.create (without a parentId)
OrganizationsCreate ==
    /\ organizations' = createOrganization(organizations, nextOrgId, [parentId |-> <<>>])
    /\ nextOrgId' = nextOrgId + 1
    /\ response' = DbResult
    /\ UNCHANGED <<shareholding, debtVars, netVars, envVars>>
    /\ db' = getDb(db, databaseUrl)

\* hypergraph.createShareholding: sharePercentage: z.number().min(0).max(10000)
HypergraphCreateShareholding(input) ==
    /\ IF input.sharePercentage >= 0 /\ input.sharePercentage <= BasisPoints
       THEN /\ shareholding' = createShareholding(shareholding, input)
            /\ response' = DbResult
            /\ db' = getDb(db, databaseUrl)
       ELSE /\ shareholding' = shareholding
            /\ response' = [kind |-> "error", error |-> "BAD_REQUEST"]
            /\ db' = db
    /\ UNCHANGED <<organizations, nextOrgId, debtVars, netVars, envVars>>

\* hypergraph.getEffectiveOwnership
HypergraphGetEffectiveOwnership(parentOrgId, maxDepthInput) ==
    LET maxDepth == IF maxDepthInput = <<>> THEN DefaultMaxDepth
                    ELSE maxDepthInput[1] IN
    /\ response' = [kind |-> "ownership",
                    parentOrgId |-> parentOrgId,
                    maxDepth |-> maxDepth,
                    rows |-> getEffectiveOwnership(shareholding, organizations,
                                                   parentOrgId, maxDepth)]
    /\ UNCHANGED <<orgVars, debtVars, netVars, envVars>>
    /\ db' = getDb(db, databaseUrl)

OwnCreateOrganization ==
    /\ nextOrgId \in OrgIds
    /\ OrganizationsCreate
    /\ UNCHANGED initialRemaining

OwnCreateShareholding == \E input \in ShareholdingInputs :
    /\ Len(shareholding) < MaxShares
    /\ HypergraphCreateShareholding(input)
    /\ UNCHANGED initialRemaining

OwnGetEffectiveOwnership ==
    \E parentOrgId \in QueriedOrgIds, maxDepthInput \in MaxDepthInputs :
        /\ HypergraphGetEffectiveOwnership(parentOrgId, maxDepthInput)
        /\ UNCHANGED initialRemaining

NextOwn ==
    OwnCreateOrganization \/ OwnCreateShareholding \/ OwnGetEffectiveOwnership

SpecOwn == Init /\ [][NextOwn]_vars

-----------------------------------------------------------------------------
(* Ownership over graphs of three holdings of 40% or 60%: enough rows for     *)
(* two chains to reach the same organization.                                 *)

PathSharePercentages == {4000, 6000}
PathShareholdingInputs ==
    {share \in ShareholdingInputs : share.sharePercentage \in PathSharePercentages}

\* the depths asked for: with four holdings in a cycle the default of 10 gives
\* over a thousand rows, which adds nothing about chains of up to 3 holdings
PathMaxDepthInputs == {<<2>>, <<3>>}

PathsCreateOrganization ==
    /\ nextOrgId \in OrgIds
    /\ OrganizationsCreate
    /\ UNCHANGED initialRemaining

PathsCreateShareholding == \E input \in PathShareholdingInputs :
    /\ Len(shareholding) < MaxSharesOnPaths
    /\ HypergraphCreateShareholding(input)
    /\ UNCHANGED initialRemaining

PathsGetEffectiveOwnership ==
    \E parentOrgId \in QueriedOrgIds, maxDepthInput \in PathMaxDepthInputs :
        /\ HypergraphGetEffectiveOwnership(parentOrgId, maxDepthInput)
        /\ UNCHANGED initialRemaining

NextPaths ==
    PathsCreateOrganization \/ PathsCreateShareholding \/ PathsGetEffectiveOwnership

SpecPaths == Init /\ [][NextPaths]_vars

-----------------------------------------------------------------------------
(* server/hypergraph-db.ts: relationships of the multiplex network *)

\* db.insert(relationships).values(rel)
createRelationship(tbl, rel) ==
    Append(tbl, [sourceEntityId |-> rel.sourceEntityId,
                 sourceEntityType |-> rel.sourceEntityType,
                 targetEntityId |-> rel.targetEntityId,
                 targetEntityType |-> rel.targetEntityType,
                 validTo |-> rel.validTo])

\* CASE WHEN ${relationships.sourceEntityId} = ${entityId} THEN ... ELSE ...:
\* the test of direction, connectedEntityId and connectedEntityType
relationshipIsOutgoing(rel, entityType, entityId) ==
    rel.sourceEntityId = entityId

\* Variant: relationships whose validTo is set are left out
relationshipMatchesWhileValid(rel, entityType, entityId) ==
    /\ rel.validTo = <<>>
    /\ \/ /\ rel.sourceEntityId = entityId
          /\ rel.sourceEntityType = entityType
       \/ /\ rel.targetEntityId = entityId
          /\ rel.targetEntityType = entityType

\* where(or(and(source id, source type), and(target id, target type)))
relationshipMatches(rel, entityType, entityId) ==
    \/ /\ rel.sourceEntityId = entityId
       /\ rel.sourceEntityType = entityType
    \/ /\ rel.targetEntityId = entityId
       /\ rel.targetEntityType = entityType

\* getRelationshipsByEntity: the selected columns of the matching rows, in
\* table order.  The LEFT JOIN of relationship_types is on its primary key:
\* it adds the columns of the type (not carried here) and no row.
getRelationshipsByEntity(tbl, entityType, entityId) ==
    LET matching == SelectSeq([i \in 1..Len(tbl) |-> i],
                              LAMBDA i : relationshipMatches(tbl[i], entityType, entityId))
    IN [k \in 1..Len(matching) |->
          LET rel == tbl[matching[k]]
              outgoing == relationshipIsOutgoing(rel, entityType, entityId)
          IN [relationshipId |-> matching[k],
              direction |-> IF outgoing THEN "outgoing" ELSE "incoming",
              connectedEntityId |->
                  IF outgoing THEN rel.targetEntityId ELSE rel.sourceEntityId,
              connectedEntityType |->
                  IF outgoing THEN rel.targetEntityType ELSE rel.sourceEntityType,
              validTo |-> rel.validTo]]

\* the entities of the inputs: two ids, each as an organization or an agent
EntityIds == {1, 2}
EntityTypes == {"organization", "agent"}
\* validTo: z.date().optional(); <<>> is an absent validTo, <<1>> a date
\* before every query
ValidToInputs == {<<>>, <<1>>}
RelationshipInputs ==
    [sourceEntityId : EntityIds, sourceEntityType : EntityTypes,
     targetEntityId : EntityIds, targetEntityType : EntityTypes,
     validTo : ValidToInputs]

\* hypergraph.createRelationship
HypergraphCreateRelationship(input) ==
    /\ relationships' = createRelationship(relationships, input)
    /\ response' = DbResult
    /\ UNCHANGED <<orgVars, debtVars, envVars, initialRemaining,
                   hypergraphNodes, hypergraphHyperedges, hypergraphIncidences,
                   stocks, flows>>
    /\ db' = getDb(db, databaseUrl)

\* hypergraph.getRelationshipsByEntity
HypergraphGetRelationshipsByEntity(entityType, entityId) ==
    /\ response' = [kind |-> "relationships",
                    entityType |-> entityType,
                    entityId |-> entityId,
                    rows |-> getRelationshipsByEntity(relationships, entityType, entityId)]
    /\ UNCHANGED <<orgVars, debtVars, netVars, envVars, initialRemaining>>
    /\ db' = getDb(db, databaseUrl)

RelCreateRelationship == \E input \in RelationshipInputs :
    /\ Len(relationships) < MaxRelationships
    /\ HypergraphCreateRelationship(input)

RelGetRelationshipsByEntity == \E entityType \in EntityTypes, entityId \in EntityIds :
    HypergraphGetRelationshipsByEntity(entityType, entityId)

NextRel == RelCreateRelationship \/ RelGetRelationshipsByEntity

SpecRel == Init /\ [][NextRel]_vars

-----------------------------------------------------------------------------
(* server/hypergraph-db.ts: hypergraph nodes, hyperedges and incidences *)

\* db.insert(hypergraphNodes).values(node)
createHypergraphNode(tbl, node) ==
    Append(tbl, [label |-> node.label])

\* db.insert(hypergraphHyperedges).values(hyperedge)
createHypergraphHyperedge(tbl, hyperedge) ==
    Append(tbl, [edgeType |-> hyperedge.edgeType])

\* db.insert(hypergraphIncidences).values(incidence); role is nullable, <<>>
\* is NULL
createHypergraphIncidence(tbl, incidence) ==
    Append(tbl, [hyperedgeId |-> incidence.hyperedgeId,
                 nodeId |-> incidence.nodeId,
                 role |-> incidence.role])

\* hypergraph_incidences LEFT JOIN hypergraph_hyperedges ON hyperedgeId = id:
\* the id of the hyperedge row joined to an incidence, <<>> (NULL) without one
joinedHyperedgeId(hyperedges, incidence) ==
    IF incidence.hyperedgeId \in 1..Len(hyperedges)
    THEN <<incidence.hyperedgeId>> ELSE <<>>

\* CONCAT(label, ' (', role, ')') of an incidence LEFT JOINed to its node:
\* the pair of label and role standing for the string "label (role)"; CONCAT
\* is NULL (<<>>) when the node row is missing or the role is NULL
participantOf(nodes, incidence) ==
    IF incidence.nodeId \in 1..Len(nodes) /\ incidence.role # <<>>
    THEN << [label |-> nodes[incidence.nodeId].label, role |-> incidence.role[1]] >>
    ELSE <<>>

\* GROUP_CONCAT(... SEPARATOR ', ') over the incidences of a group: the
\* non-NULL values one after the other (here in table order)
groupConcatParticipants(nodes, group) ==
    Flatten([k \in 1..Len(group) |-> participantOf(nodes, group[k])])

\* getHypergraphNeighborhood: the incidences whose hyperedgeId is IN the
\* hyperedgeIds of the incidences of nodeId, grouped by the joined hyperedge
\* row (one group for NULL), one result row per group
getHypergraphNeighborhood(nodes, hyperedges, incidences, nodeId) ==
    LET ofNode == {incidences[i].hyperedgeId :
                      i \in {j \in 1..Len(incidences) : incidences[j].nodeId = nodeId}}
        selected == SelectSeq(incidences, LAMBDA inc : inc.hyperedgeId \in ofNode)
        groupOf(h) ==
            SelectSeq(selected, LAMBDA inc : joinedHyperedgeId(hyperedges, inc) = h)
        rowOf(h) ==
            IF groupOf(h) = <<>> THEN <<>>
            ELSE << [hyperedgeId |-> h,
                     edgeType |-> IF h = <<>> THEN <<>> ELSE <<hyperedges[h[1]].edgeType>>,
                     participants |-> groupConcatParticipants(nodes, groupOf(h))] >>
    IN rowOf(<<>>) \o Flatten([h \in 1..Len(hyperedges) |-> rowOf(<<h>>)])

\* the nodes and hyperedges of the inputs: A = 1, B = 2, C = 3; two hyperedges
NodeIds == {1, 2, 3}
HyperedgeIds == {1, 2}
\* the i-th node is created with the i-th label
NodeLabels == <<"A", "B", "C">>
\* role: z.string().optional(); <<>> is an absent role
RoleInputs == {<<>>, <<"buyer">>}
IncidenceInputs == [hyperedgeId : HyperedgeIds, nodeId : NodeIds, role : RoleInputs]

\* hypergraph.createHypergraphNode
HypergraphCreateHypergraphNode(input) ==
    /\ hypergraphNodes' = createHypergraphNode(hypergraphNodes, input)
    /\ response' = DbResult
    /\ UNCHANGED <<orgVars, debtVars, envVars, initialRemaining, relationships,
                   hypergraphHyperedges, hypergraphIncidences, stocks, flows>>
    /\ db' = getDb(db, databaseUrl)

\* hypergraph.createHypergraphHyperedge
HypergraphCreateHypergraphHyperedge(input) ==
    /\ hypergraphHyperedges' = createHypergraphHyperedge(hypergraphHyperedges, input)
    /\ response' = DbResult
    /\ UNCHANGED <<orgVars, debtVars, envVars, initialRemaining, relationships,
                   hypergraphNodes, hypergraphIncidences, stocks, flows>>
    /\ db' = getDb(db, databaseUrl)

\* hypergraph.createHypergraphIncidence
HypergraphCreateHypergraphIncidence(input) ==
    /\ hypergraphIncidences' = createHypergraphIncidence(hypergraphIncidences, input)
    /\ response' = DbResult
    /\ UNCHANGED <<orgVars, debtVars, envVars, initialRemaining, relationships,
                   hypergraphNodes, hypergraphHyperedges, stocks, flows>>
    /\ db' = getDb(db, databaseUrl)

\* hypergraph.getHypergraphNeighborhood
HypergraphGetHypergraphNeighborhood(nodeId) ==
    /\ response' = [kind |-> "neighborhood",
                    nodeId |-> nodeId,
                    rows |-> getHypergraphNeighborhood(hypergraphNodes,
                                hypergraphHyperedges, hypergraphIncidences, nodeId)]
    /\ UNCHANGED <<orgVars, debtVars, netVars, envVars, initialRemaining>>
    /\ db' = getDb(db, databaseUrl)

HyperCreateNode ==
    /\ Len(hypergraphNodes) + 1 \in NodeIds
    /\ HypergraphCreateHypergraphNode([label |-> NodeLabels[Len(hypergraphNodes) + 1]])

HyperCreateHyperedge ==
    /\ Len(hypergraphHyperedges) + 1 \in HyperedgeIds
    /\ HypergraphCreateHypergraphHyperedge([edgeType |-> "deal"])

HyperCreateIncidence == \E input \in IncidenceInputs :
    /\ Len(hypergraphIncidences) < MaxIncidences
    /\ HypergraphCreateHypergraphIncidence(input)

HyperGetNeighborhood == \E nodeId \in NodeIds :
    HypergraphGetHypergraphNeighborhood(nodeId)

NextHyper ==
    HyperCreateNode \/ HyperCreateHyperedge \/ HyperCreateIncidence
        \/ HyperGetNeighborhood

SpecHyper == Init /\ [][NextHyper]_vars

-----------------------------------------------------------------------------
(* server/hypergraph-db.ts: stocks and flows *)

\* db.insert(stocks).values(stock); minValue and maxValue are nullable
createStock(tbl, stock) ==
    Append(tbl, [entityType |-> stock.entityType,
                 entityId |-> stock.entityId,
                 currentValue |-> stock.currentValue,
                 minValue |-> stock.minValue,
                 maxValue |-> stock.maxValue])

\* db.insert(flows).values(flow); sourceStockId, targetStockId and
\* currentRate are nullable, <<>> is NULL; flowType is NOT NULL
createFlow(tbl, flow) ==
    Append(tbl, [sourceStockId |-> flow.sourceStockId,
                 targetStockId |-> flow.targetStockId,
                 flowType |-> flow.flowType,
                 currentRate |-> flow.currentRate])

\* the row of NULLs a LEFT JOIN pairs with a stock that no flow joins
NullFlow == [sourceStockId |-> <<>>, targetStockId |-> <<>>, flowType |-> <<>>,
             currentRate |-> <<>>]

\* Variant: an inner join, no row for a stock without flows
stockFlowGroupInner(flowTbl, stockId) ==
    SelectSeq(flowTbl, LAMBDA f : \/ f.sourceStockId = <<stockId>>
                                  \/ f.targetStockId = <<stockId>>)

\* stocks s LEFT JOIN flows f ON s.id = f.sourceStockId OR s.id = f.targetStockId
\* GROUP BY s.id: the joined flow rows of one stock (a comparison with NULL
\* is not true)
stockFlowGroup(flowTbl, stockId) ==
    LET joined == SelectSeq(flowTbl, LAMBDA f : \/ f.sourceStockId = <<stockId>>
                                                \/ f.targetStockId = <<stockId>>)
    IN IF joined = <<>> THEN <<NullFlow>> ELSE joined

\* SUM over the values of a group: NULLs are skipped, and the sum of no value
\* is NULL
RECURSIVE sumOfGroup(_)
sumOfGroup(values) ==
    IF values = <<>> THEN <<>>
    ELSE LET rest == sumOfGroup(Tail(values)) IN
         IF Head(values) = <<>> THEN rest
         ELSE IF rest = <<>> THEN Head(values)
         ELSE <<Head(values)[1] + rest[1]>>

\* COALESCE(value, 0)
coalesceZero(value) == IF value = <<>> THEN 0 ELSE value[1]

\* COALESCE(SUM(CASE WHEN f.targetStockId = s.id THEN f.currentRate ELSE 0 END), 0)
totalInflow(group, stockId) ==
    coalesceZero(sumOfGroup([k \in 1..Len(group) |->
        IF group[k].targetStockId = <<stockId>> THEN group[k].currentRate ELSE <<0>>]))

\* Variant: only the flows declared "outflow" or "biflow" count as outflow
totalOutflowByFlowType(group, stockId) ==
    coalesceZero(sumOfGroup([k \in 1..Len(group) |->
        IF /\ group[k].sourceStockId = <<stockId>>
           /\ group[k].flowType \in {"outflow", "biflow"}
        THEN group[k].currentRate ELSE <<0>>]))

\* COALESCE(SUM(CASE WHEN f.sourceStockId = s.id THEN f.currentRate ELSE 0 END), 0)
totalOutflow(group, stockId) ==
    coalesceZero(sumOfGroup([k \in 1..Len(group) |->
        IF group[k].sourceStockId = <<stockId>> THEN group[k].currentRate ELSE <<0>>]))

\* Variant: the projection is kept within minValue and maxValue
projectedValueClamped(stock, inflow, outflow) ==
    LET projected == stock.currentValue + inflow - outflow
        atLeast == IF stock.minValue # <<>> /\ projected < stock.minValue[1]
                   THEN stock.minValue[1] ELSE projected
    IN IF stock.maxValue # <<>> /\ atLeast > stock.maxValue[1]
       THEN stock.maxValue[1] ELSE atLeast

\* s.currentValue + COALESCE(SUM(...), 0) - COALESCE(SUM(...), 0)
projectedValue(stock, inflow, outflow) ==
    stock.currentValue + inflow - outflow

\* getStockFlowDynamics: one row per group, for the stocks
\* WHERE s.entityType = ${entityType} AND s.entityId = ${entityId}
getStockFlowDynamics(stockTbl, flowTbl, entityType, entityId) ==
    LET rowOf(stockId) ==
            LET stock == stockTbl[stockId]
                group == stockFlowGroup(flowTbl, stockId)
            IN IF \/ stock.entityType # entityType
                  \/ stock.entityId # entityId
                  \/ group = <<>>
               THEN <<>>
               ELSE << [stockId |-> stockId,
                        currentValue |-> stock.currentValue,
                        totalInflow |-> totalInflow(group, stockId),
                        totalOutflow |-> totalOutflow(group, stockId),
                        projectedValue |->
                            projectedValue(stock, totalInflow(group, stockId),
                                           totalOutflow(group, stockId))] >>
    IN Flatten([stockId \in 1..Len(stockTbl) |-> rowOf(stockId)])

\* the stocks of the inputs: two stocks, each of organization 1 or of agent 1,
\* with a value of 100 and either no bounds or the bounds 100..100
StockIds == {1, 2}
StockOwners == {<<"organization", 1>>, <<"agent", 1>>}
StockBounds == {<<>>, <<100>>}
StockInputs ==
    {[entityType |-> owner[1], entityId |-> owner[2], currentValue |-> 100,
      minValue |-> bound, maxValue |-> bound] :
        owner \in StockOwners, bound \in StockBounds}
\* sourceStockId, targetStockId, currentRate: z.number().optional()
FlowStockInputs == {<<>>, <<1>>, <<2>>}
FlowRateInputs == {<<>>, <<3>>, <<5>>}
\* flowType: z.enum(["inflow", "outflow", "biflow"])
FlowTypes == {"inflow", "outflow", "biflow"}
\* the flows of SpecStock are all of one type
FlowInputs ==
    [sourceStockId : FlowStockInputs, targetStockId : FlowStockInputs,
     flowType : {"biflow"}, currentRate : FlowRateInputs]

\* hypergraph.createStock
HypergraphCreateStock(input) ==
    /\ stocks' = createStock(stocks, input)
    /\ response' = DbResult
    /\ UNCHANGED <<orgVars, debtVars, envVars, initialRemaining, relationships,
                   hypergraphNodes, hypergraphHyperedges, hypergraphIncidences, flows>>
    /\ db' = getDb(db, databaseUrl)

\* hypergraph.createFlow
HypergraphCreateFlow(input) ==
    /\ flows' = createFlow(flows, input)
    /\ response' = DbResult
    /\ UNCHANGED <<orgVars, debtVars, envVars, initialRemaining, relationships,
                   hypergraphNodes, hypergraphHyperedges, hypergraphIncidences, stocks>>
    /\ db' = getDb(db, databaseUrl)

\* hypergraph.getStockFlowDynamics
HypergraphGetStockFlowDynamics(entityType, entityId) ==
    /\ response' = [kind |-> "dynamics",
                    entityType |-> entityType,
                    entityId |-> entityId,
                    rows |-> getStockFlowDynamics(stocks, flows, entityType, entityId)]
    /\ UNCHANGED <<orgVars, debtVars, netVars, envVars, initialRemaining>>
    /\ db' = getDb(db, databaseUrl)

StockCreateStock == \E input \in StockInputs :
    /\ Len(stocks) + 1 \in StockIds
    /\ HypergraphCreateStock(input)

StockCreateFlow == \E input \in FlowInputs :
    /\ Len(flows) < MaxFlows
    /\ HypergraphCreateFlow(input)

StockGetStockFlowDynamics == \E owner \in StockOwners :
    HypergraphGetStockFlowDynamics(owner[1], owner[2])

NextStock == StockCreateStock \/ StockCreateFlow \/ StockGetStockFlowDynamics

SpecStock == Init /\ [][NextStock]_vars

-----------------------------------------------------------------------------
(* The store behind the routes: the database handle may be absent, and the    *)
(* server behind a handle may stop answering (SpecStore).                     *)

\* rows per table in SpecStore
MaxStored == 1

\* select ... from debts where organizationId = ? order by createdAt desc:
\* every debt of the model belongs to the organization asked for, and
\* createdAt grows with the AUTO_INCREMENT id
RECURSIVE debtsByIdDesc(_, _)
debtsByIdDesc(tbl, ids) ==
    IF ids = {} THEN <<>>
    ELSE LET id == CHOOSE i \in ids : \A j \in ids : j <= i IN
         <<tbl[id]>> \o debtsByIdDesc(tbl, ids \ {id})

getDebtsByOrganization(tbl) == debtsByIdDesc(tbl, DOMAIN tbl)

\* select ... from debtPayments where debtId = ? (the payment rows of the
\* model carry no paymentDate: the rows are listed in table order)
getDebtPaymentsByDebt(payments, debtId) ==
    SelectSeq(payments, LAMBDA p : p.debtId = debtId)

\* debts.list
DebtsList ==
    /\ response' = [kind |-> "debts", rows |-> getDebtsByOrganization(debts)]
    /\ UNCHANGED <<orgVars, debtVars, netVars, envVars, initialRemaining>>
    /\ db' = getDb(db, databaseUrl)

\* debts.getPayments
DebtsGetPayments(debtId) ==
    /\ response' = [kind |-> "payments", debtId |-> debtId,
                    rows |-> getDebtPaymentsByDebt(debtPayments, debtId)]
    /\ UNCHANGED <<orgVars, debtVars, netVars, envVars, initialRemaining>>
    /\ db' = getDb(db, databaseUrl)

\* a request that changes no table and ends with the given response
Answers(result) ==
    /\ response' = result
    /\ db' = getDb(db, databaseUrl)
    /\ UNCHANGED <<orgVars, debtVars, netVars, envVars, initialRemaining>>

\* the query of a helper on a handle whose server does not answer: the
\* promise rejects, no helper and no route catches it
QueryFailed == [kind |-> "error", error |-> "query failed"]

\* if (!db) throw new Error("Database not available")
DatabaseNotAvailable == [kind |-> "error", error |-> "Database not available"]

\* A route whose first helper reads: if (!db) return [] without a handle,
\* the query otherwise
ReadRoute(kind, Answered) ==
    IF getDb(db, databaseUrl) = "null"
    THEN Answers([kind |-> kind, rows |-> <<>>])
    ELSE IF ~storeUp
         THEN Answers(QueryFailed)
         ELSE Answered

\* A route whose first helper writes: if (!db) throw without a handle, the
\* statement otherwise
WriteRoute(Answered) ==
    IF getDb(db, databaseUrl) = "null"
    THEN Answers(DatabaseNotAvailable)
    ELSE IF ~storeUp
         THEN Answers(QueryFailed)
         ELSE Answered

\* The requests of SpecStore
StoredDebt == [originalAmount |-> 2, remainingAmount |-> 2, status |-> "active"]
StoredPayment == [debtId |-> 1, amount |-> 1]
StoredShareholding == [childOrgId |-> 1, parentOrgId |-> 2, sharePercentage |-> 6000]
StoredRelationship ==
    [sourceEntityId |-> 1, sourceEntityType |-> "organization",
     targetEntityId |-> 2, targetEntityType |-> "organization", validTo |-> <<>>]
StoredIncidence == [hyperedgeId |-> 1, nodeId |-> 1, role |-> <<"buyer">>]
StoredStock == [entityType |-> "organization", entityId |-> 1, currentValue |-> 100,
                minValue |-> <<>>, maxValue |-> <<>>]

StoreGetEffectiveOwnership ==
    ReadRoute("ownership", HypergraphGetEffectiveOwnership(2, <<>>)
                           /\ UNCHANGED initialRemaining)

StoreGetRelationshipsByEntity ==
    ReadRoute("relationships", HypergraphGetRelationshipsByEntity("organization", 1))

StoreGetHypergraphNeighborhood ==
    ReadRoute("neighborhood", HypergraphGetHypergraphNeighborhood(1))

StoreGetStockFlowDynamics ==
    ReadRoute("dynamics", HypergraphGetStockFlowDynamics("organization", 1))

StoreDebtsList == ReadRoute("debts", DebtsList)

StoreDebtsGetPayments == ReadRoute("payments", DebtsGetPayments(1))

StoreReads ==
    \/ StoreGetEffectiveOwnership
    \/ StoreGetRelationshipsByEntity
    \/ StoreGetHypergraphNeighborhood
    \/ StoreGetStockFlowDynamics
    \/ StoreDebtsList
    \/ StoreDebtsGetPayments

StoreDebtsCreate ==
    /\ nextDebtId <= MaxStored
    /\ WriteRoute(DebtsCreate(StoredDebt) /\ UNCHANGED initialRemaining)

StoreDebtsAddPayment ==
    /\ Len(debtPayments) < MaxStored
    /\ WriteRoute(DebtsAddPayment(StoredPayment) /\ UNCHANGED initialRemaining)

StoreOrganizationsCreate ==
    /\ nextOrgId <= MaxStored
    /\ WriteRoute(OrganizationsCreate /\ UNCHANGED initialRemaining)

StoreCreateShareholding ==
    /\ Len(shareholding) < MaxStored
    /\ WriteRoute(HypergraphCreateShareholding(StoredShareholding)
                  /\ UNCHANGED initialRemaining)

StoreCreateRelationship ==
    /\ Len(relationships) < MaxStored
    /\ WriteRoute(HypergraphCreateRelationship(StoredRelationship))

StoreCreateHypergraphIncidence ==
    /\ Len(hypergraphIncidences) < MaxStored
    /\ WriteRoute(HypergraphCreateHypergraphIncidence(StoredIncidence))

StoreCreateStock ==
    /\ Len(stocks) < MaxStored
    /\ WriteRoute(HypergraphCreateStock(StoredStock))

StoreWrites ==
    \/ StoreDebtsCreate
    \/ StoreDebtsAddPayment
    \/ StoreOrganizationsCreate
    \/ StoreCreateShareholding
    \/ StoreCreateRelationship
    \/ StoreCreateHypergraphIncidence
    \/ StoreCreateStock

\* The server process starts again, with or without a usable DATABASE_URL:
\* _db is null again, the tables are what they were
ProcessRestarts == \E url \in BOOLEAN :
    /\ db' = "null"
    /\ databaseUrl' = url
    /\ response' = [kind |-> "none"]
    /\ UNCHANGED <<orgVars, debtVars, netVars, storeUp, now, initialRemaining>>

\* The MySQL server stops answering
ServerGoesDown ==
    /\ storeUp
    /\ storeUp' = FALSE
    /\ UNCHANGED <<orgVars, debtVars, netVars, db, databaseUrl, now, response,
                   initialRemaining>>

\* The MySQL server answers again
ServerComesBack ==
    /\ ~storeUp
    /\ storeUp' = TRUE
    /\ UNCHANGED <<orgVars, debtVars, netVars, db, databaseUrl, now, response,
                   initialRemaining>>

NextStore ==
    \/ StoreReads
    \/ StoreWrites
    \/ ProcessRestarts
    \/ ServerGoesDown
    \/ ServerComesBack

SpecStore == Init /\ [][NextStore]_vars

-----------------------------------------------------------------------------
(* Properties of the debt routes, one request at a time (Spec) *)

\* the request the last appended payment row came from
LastPayment == debtPayments[Len(debtPayments)]

\* the last request handled was an addPayment (every handler sets response)
AddPaymentReturned ==
    /\ response.kind = "addPayment"
    /\ debtPayments # <<>>

\* C1: an addPayment on an existing debt leaves remainingAmount at
\* max(0, remainingAmount before - amount), which is never negative.
C1_RemainingIsClampedDifference ==
    [][\A input \in AddPaymentInputs :
         (DebtsAddPayment(input) /\ input.debtId \in DOMAIN debts) =>
            LET before == debts[input.debtId].remainingAmount
                after == debts'[input.debtId].remainingAmount
            IN /\ after >= 0
               /\ before - input.amount >= 0 => after = before - input.amount
               /\ before - input.amount < 0 => after = 0]_vars

\* an over-payment was clamped: 2 cents paid, nothing left, never below 0
C1_Witness ==
    /\ AddPaymentReturned
    /\ LastPayment.debtId \in DOMAIN debts
    /\ LastPayment.amount = 2
    /\ debts[LastPayment.debtId].remainingAmount = 0
    /\ debts[LastPayment.debtId].originalAmount = 1

\* C2: after an addPayment on an existing debt the status is "paid" when the
\* new remainingAmount is 0 and the status before the call otherwise.
C2_StatusPaidIffZeroElseKept ==
    [][\A input \in AddPaymentInputs :
         (DebtsAddPayment(input) /\ input.debtId \in DOMAIN debts) =>
            LET after == debts'[input.debtId]
            IN /\ after.remainingAmount = 0 => after.status = "paid"
               /\ after.remainingAmount # 0 =>
                     after.status = debts[input.debtId].status]_vars

\* a part payment left an overdue debt overdue
C2_Witness ==
    /\ AddPaymentReturned
    /\ LastPayment.debtId \in DOMAIN debts
    /\ LastPayment.amount = 1
    /\ debts[LastPayment.debtId].remainingAmount = 1
    /\ debts[LastPayment.debtId].status = "overdue"

\* C3: status = "paid" exactly when remainingAmount = 0, for every debt, in
\* every state reached through debts.create, debts.update, debts.addPayment.
C3_PaidIffZero ==
    \A id \in DOMAIN debts :
        debts[id].status = "paid" <=> debts[id].remainingAmount = 0

\* C4: every debt has 0 <= remainingAmount <= originalAmount.
C4_RemainingWithinOriginal ==
    \A id \in DOMAIN debts :
        /\ 0 <= debts[id].remainingAmount
        /\ debts[id].remainingAmount <= debts[id].originalAmount

\* C7: "paid" is terminal under addPayment: a paid debt stays paid whatever
\* the amount of the payment.
C7_PaidIsTerminal ==
    [][\A input \in AddPaymentInputs :
         (/\ DebtsAddPayment(input)
          /\ input.debtId \in DOMAIN debts
          /\ debts[input.debtId].status = "paid") =>
            debts'[input.debtId].status = "paid"]_vars

\* a negative payment raised the balance of a paid debt, which is still paid
C7_Witness ==
    /\ AddPaymentReturned
    /\ LastPayment.debtId \in DOMAIN debts
    /\ LastPayment.amount < 0
    /\ debts[LastPayment.debtId].status = "paid"
    /\ debts[LastPayment.debtId].remainingAmount > 0

-----------------------------------------------------------------------------
(* Properties of sequential payments (SpecPay) and of racing ones (SpecRace) *)

RECURSIVE SumAmounts(_)
SumAmounts(payments) ==
    IF payments = <<>> THEN 0
    ELSE Head(payments).amount + SumAmounts(Tail(payments))

\* the amounts recorded for one debt, summed
PaidOn(id) == SumAmounts(SelectSeq(debtPayments, LAMBDA p : p.debtId = id))

PaymentsOn(id) == Len(SelectSeq(debtPayments, LAMBDA p : p.debtId = id))

\* C5: a racing addPayment writes the balance it computed from its own read,
\* whatever the row holds by then: of two calls that read the same
\* remainingAmount the later write overwrites the earlier one.
C5_WriteUsesOwnRead ==
    [][\A c \in Callers :
         (AddPaymentUpdateDebt(c) /\ call[c].debtId \in DOMAIN debts) =>
            LET read == call[c].debt[1].remainingAmount
                stored == debts'[call[c].debtId].remainingAmount
            IN /\ read - call[c].amount >= 0 => stored = read - call[c].amount
               /\ read - call[c].amount < 0 => stored = 0]_vars

\* both calls read remainingAmount 2 and have returned, both payment rows of
\* 1 cent exist, and the debt still owes 1: one payment is lost
C5_Witness ==
    /\ \A c \in Callers :
          /\ pc[c] = "idle"
          /\ call[c].debtId = 1
          /\ call[c].amount = 1
          /\ call[c].debt # <<>>
          /\ call[c].debt[1].remainingAmount = 2
    /\ 1 \in DOMAIN debts
    /\ debtPayments = <<[debtId |-> 1, amount |-> 1], [debtId |-> 1, amount |-> 1]>>
    /\ debts[1].remainingAmount = 1

\* C6: after sequential addPayment calls with positive amounts on a debt, its
\* remainingAmount is max(0, initial remainingAmount - sum of the amounts),
\* and once the sum reaches the initial remainingAmount the debt is at 0 and
\* "paid".
C6_SequentialPaymentsCompound ==
    \A id \in DOMAIN debts :
        PaymentsOn(id) >= 1 =>
            LET left == initialRemaining[id] - PaidOn(id) IN
            /\ left > 0 => debts[id].remainingAmount = left
            /\ left <= 0 => /\ debts[id].remainingAmount = 0
                            /\ debts[id].status = "paid"

\* two payments of 1 cent paid off a debt created active with 2 cents
C6_Witness ==
    /\ 1 \in DOMAIN debts
    /\ initialRemaining[1] = 2
    /\ debtPayments = <<[debtId |-> 1, amount |-> 1], [debtId |-> 1, amount |-> 1]>>
    /\ debts[1].remainingAmount = 0
    /\ debts[1].status = "paid"

-----------------------------------------------------------------------------
(* Properties of the ownership query (SpecOwn) *)

\* e is the quotient E * s / 10000 as a whole number of basis points: exact
\* when the division is, and less than one basis point off otherwise
IsProductBps(e, E, s) ==
    /\ (E * s) % 10000 = 0 => e * 10000 = E * s
    /\ e * 10000 - E * s < 10000
    /\ E * s - e * 10000 < 10000

OwnershipReturned == response.kind = "ownership"

\* C10: ownership composes multiplicatively along a chain: a depth-1 row
\* carries the sharePercentage of its edge, and a row at depth k+1 carries
\* E * s / 10000 for the depth-k chain row (ownership E) it extends over an
\* edge with sharePercentage s; every two-edge chain from the queried parent
\* whose product is at least 1% has its depth-2 row in the result.
C10_OwnershipComposesAlongChain ==
    OwnershipReturned =>
        LET root == response.parentOrgId
            rows == response.rows
            oc == ownershipChain(shareholding, root, response.maxDepth)
            edges == 1..Len(shareholding)
        IN /\ \A k \in 1..Len(rows) :
                /\ rows[k].depth = 1 =>
                     \E i \in edges :
                        /\ shareholding[i].parentOrgId = root
                        /\ shareholding[i].childOrgId = rows[k].childOrgId
                        /\ rows[k].effectiveOwnership = shareholding[i].sharePercentage
                /\ rows[k].depth > 1 =>
                     \E j \in 1..Len(oc), i \in edges :
                        /\ oc[j].depth = rows[k].depth - 1
                        /\ oc[j].chain = SubSeq(rows[k].chain, 1, Len(rows[k].chain) - 1)
                        /\ shareholding[i].parentOrgId = oc[j].childOrgId
                        /\ shareholding[i].childOrgId = rows[k].childOrgId
                        /\ IsProductBps(rows[k].effectiveOwnership,
                                        oc[j].effectiveOwnership,
                                        shareholding[i].sharePercentage)
           /\ \A i \in edges, j \in edges :
                (/\ shareholding[i].parentOrgId = root
                 /\ shareholding[j].parentOrgId = shareholding[i].childOrgId
                 /\ shareholding[j].childOrgId \in DOMAIN organizations
                 /\ response.maxDepth >= 2
                 /\ shareholding[i].sharePercentage * shareholding[j].sharePercentage
                       >= 100 * 10000) =>
                    \E k \in 1..Len(rows) :
                        /\ rows[k].childOrgId = shareholding[j].childOrgId
                        /\ rows[k].depth = 2
                        /\ rows[k].chain = <<root, shareholding[i].childOrgId,
                                             shareholding[j].childOrgId>>
                        /\ IsProductBps(rows[k].effectiveOwnership,
                                        shareholding[i].sharePercentage,
                                        shareholding[j].sharePercentage)

\* A holds 60% of B and B holds 40% of C: the query for A has C at 2400 basis
\* points, depth 2
C10_Witness ==
    /\ OwnershipReturned
    /\ response.parentOrgId = 1
    /\ shareholding =
          << [childOrgId |-> 2, parentOrgId |-> 1, sharePercentage |-> 6000],
             [childOrgId |-> 3, parentOrgId |-> 2, sharePercentage |-> 4000] >>
    /\ \E k \in 1..Len(response.rows) :
          response.rows[k] = [childOrgId |-> 3, effectiveOwnership |-> 2400,
                              depth |-> 2, chain |-> <<1, 2, 3>>]

\* C11: the ownership query terminates on every shareholding graph, cyclic
\* ones included, and every row it returns has a depth between 1 and maxDepth.
C11_DepthWithinMaxDepth ==
    OwnershipReturned =>
        \A k \in 1..Len(response.rows) :
            /\ response.rows[k].depth >= 1
            /\ response.rows[k].depth <= response.maxDepth

\* the rows an ownership query selects from, before the filter and the order
OwnershipChainQueried ==
    ownershipChain(shareholding, response.parentOrgId, response.maxDepth)

\* the number of indices of a sequence whose element satisfies Test
CountSeq(seq, Test(_)) == Cardinality({k \in 1..Len(seq) : Test(seq[k])})

\* C12: every returned row has effectiveOwnership >= 100, every chain below
\* 100 is absent (the rows are the chains of existing organizations at 100 or
\* more, each once), and the rows are in descending order of effectiveOwnership.
C12_FilteredAndOrdered ==
    OwnershipReturned =>
        LET rows == response.rows
            oc == OwnershipChainQueried
            SameChain(row, c) ==
                /\ c.childOrgId = row.childOrgId
                /\ c.effectiveOwnership = row.effectiveOwnership
                /\ c.depth = row.depth
                /\ c.chain = row.chain
        IN /\ \A k \in 1..Len(rows) : rows[k].effectiveOwnership >= 100
           /\ \A j \in 1..Len(oc) :
                 CountSeq(rows, LAMBDA row : SameChain(row, oc[j])) =
                    IF /\ oc[j].effectiveOwnership >= 100
                       /\ oc[j].childOrgId \in DOMAIN organizations
                    THEN CountSeq(oc, LAMBDA c : SameChain(oc[j], c))
                    ELSE 0
           /\ \A k \in 1..Len(rows) :
                 \E j \in 1..Len(oc) : SameChain(rows[k], oc[j])
           /\ \A k \in 1..(Len(rows) - 1) :
                 rows[k].effectiveOwnership >= rows[k + 1].effectiveOwnership

\* A holds 60% of B and B holds 0.75% of C: the chain to C carries 45 basis
\* points and the query for A returns the row of B alone
C12_Witness ==
    /\ OwnershipReturned
    /\ response.maxDepth >= 2
    /\ DOMAIN organizations = {1, 2, 3}
    /\ shareholding =
          << [childOrgId |-> 2, parentOrgId |-> 1, sharePercentage |-> 6000],
             [childOrgId |-> 3, parentOrgId |-> 2, sharePercentage |-> 75] >>
    /\ \E j \in 1..Len(OwnershipChainQueried) :
          /\ OwnershipChainQueried[j].childOrgId = 3
          /\ OwnershipChainQueried[j].effectiveOwnership = 45
    /\ response.rows = << [childOrgId |-> 2, effectiveOwnership |-> 6000,
                           depth |-> 1, chain |-> <<1, 2>>] >>

-----------------------------------------------------------------------------
(* Properties of the ownership query over several chains (SpecPaths) *)

\* the sequences of d shareholding rows that lead from root to org
PathsTo(root, org, d) ==
    {p \in [1..d -> 1..Len(shareholding)] :
        /\ shareholding[p[1]].parentOrgId = root
        /\ \A i \in 1..(d - 1) :
              shareholding[p[i]].childOrgId = shareholding[p[i + 1]].parentOrgId
        /\ shareholding[p[d]].childOrgId = org}

\* root followed by the organizations the rows of p lead to
PathChain(root, p) ==
    <<root>> \o [i \in 1..Len(p) |-> shareholding[p[i]].childOrgId]

\* the fraction of 10000 that the percentages of the first n rows of p
\* multiply to, in whole basis points
RECURSIVE PathOwnership(_, _)
PathOwnership(p, n) ==
    IF n = 1 THEN shareholding[p[1]].sharePercentage
    ELSE (PathOwnership(p, n - 1) * shareholding[p[n]].sharePercentage) \div 10000

\* no step of the product along p leaves a fraction of a basis point
RECURSIVE PathExact(_, _)
PathExact(p, n) ==
    \/ n = 1
    \/ /\ PathExact(p, n - 1)
       /\ (PathOwnership(p, n - 1) * shareholding[p[n]].sharePercentage) % 10000 = 0

\* C13: when several chains lead from the root to the same organization, the
\* result has one row per chain, each with the ownership, depth and path of
\* its own chain: for every existing organization and every depth up to 3
\* within maxDepth there are as many rows as chains (of at least 1%), every
\* chain has a row with its path and its product, and every row is the row of
\* one chain.
C13_OneRowPerChain ==
    OwnershipReturned =>
        LET root == response.parentOrgId
            rows == response.rows
        IN \A org \in DOMAIN organizations, d \in 1..3 :
              d <= response.maxDepth =>
                 LET paths == {p \in PathsTo(root, org, d) : PathOwnership(p, d) >= 100}
                     IsRowOf(row, p) ==
                        /\ row.childOrgId = org
                        /\ row.depth = d
                        /\ row.chain = PathChain(root, p)
                        /\ PathExact(p, d)
                        /\ row.effectiveOwnership = PathOwnership(p, d)
                 IN /\ CountSeq(rows, LAMBDA row : row.childOrgId = org /\ row.depth = d)
                       = Cardinality(paths)
                    /\ \A p \in paths : \E k \in 1..Len(rows) : IsRowOf(rows[k], p)
                    /\ \A k \in 1..Len(rows) :
                          (rows[k].childOrgId = org /\ rows[k].depth = d) =>
                             \E p \in paths : IsRowOf(rows[k], p)

\* A holds 40% of C directly and 60% of B, which holds 40% of C: the query
\* for A has two rows for C, 4000 at depth 1 and 2400 at depth 2, and no row
\* of 6400
C13_Witness ==
    /\ OwnershipReturned
    /\ response.parentOrgId = 1
    /\ shareholding =
          << [childOrgId |-> 2, parentOrgId |-> 1, sharePercentage |-> 6000],
             [childOrgId |-> 3, parentOrgId |-> 2, sharePercentage |-> 4000],
             [childOrgId |-> 3, parentOrgId |-> 1, sharePercentage |-> 4000] >>
    /\ response.rows =
          << [childOrgId |-> 2, effectiveOwnership |-> 6000, depth |-> 1,
              chain |-> <<1, 2>>],
             [childOrgId |-> 3, effectiveOwnership |-> 4000, depth |-> 1,
              chain |-> <<1, 3>>],
             [childOrgId |-> 3, effectiveOwnership |-> 2400, depth |-> 2,
              chain |-> <<1, 2, 3>>] >>

-----------------------------------------------------------------------------
(* Properties of the relationship query (SpecRel) *)

RelationshipsReturned == response.kind = "relationships"

\* the entity at the source and at the target of a relationships row
SourceOf(rel) == <<rel.sourceEntityType, rel.sourceEntityId>>
TargetOf(rel) == <<rel.targetEntityType, rel.targetEntityId>>

\* the entity a relationship query asked for
QueriedEntity == <<response.entityType, response.entityId>>

\* C14: for a row from X to Y, two distinct entities, the query for X returns
\* the row as outgoing with Y connected, and the query for Y returns it as
\* incoming with connectedEntityId that of X.
C14_OutgoingForSourceIncomingForTarget ==
    RelationshipsReturned =>
        \A i \in 1..Len(relationships) :
            LET rel == relationships[i] IN
            SourceOf(rel) # TargetOf(rel) =>
                /\ SourceOf(rel) = QueriedEntity =>
                      \E k \in 1..Len(response.rows) :
                         /\ response.rows[k].relationshipId = i
                         /\ response.rows[k].direction = "outgoing"
                         /\ response.rows[k].connectedEntityId = rel.targetEntityId
                         /\ response.rows[k].connectedEntityType = rel.targetEntityType
                /\ TargetOf(rel) = QueriedEntity =>
                      \E k \in 1..Len(response.rows) :
                         /\ response.rows[k].relationshipId = i
                         /\ response.rows[k].direction = "incoming"
                         /\ response.rows[k].connectedEntityId = rel.sourceEntityId

\* C15: every returned row is outgoing exactly when the queried (id, type)
\* pair is the source of its relationship, and its connected id and type are
\* those of the side that is not the queried entity, also when source and
\* target have the same id under different types.
C15_DirectionAndConnectedByEntity ==
    RelationshipsReturned =>
        \A k \in 1..Len(response.rows) :
            LET row == response.rows[k]
                rel == relationships[row.relationshipId]
                connected == <<row.connectedEntityType, row.connectedEntityId>>
            IN /\ row.direction = "outgoing" <=> SourceOf(rel) = QueriedEntity
               /\ SourceOf(rel) # TargetOf(rel) =>
                     /\ connected # QueriedEntity
                     /\ connected \in {SourceOf(rel), TargetOf(rel)}

\* C16: the query returns exactly the rows whose source pair or target pair
\* is the queried pair, each once and whatever its validTo.
C16_ExactlyTheMatchingRows ==
    RelationshipsReturned =>
        /\ \A i \in 1..Len(relationships) :
              CountSeq(response.rows, LAMBDA row : row.relationshipId = i) =
                 IF \/ SourceOf(relationships[i]) = QueriedEntity
                    \/ TargetOf(relationships[i]) = QueriedEntity
                 THEN 1 ELSE 0
        /\ \A k \in 1..Len(response.rows) :
              /\ response.rows[k].relationshipId \in 1..Len(relationships)
              /\ response.rows[k].validTo =
                    relationships[response.rows[k].relationshipId].validTo

\* a relationship that has ended is returned next to one that has not, and a
\* row of another entity with the same id is not
C16_Witness ==
    /\ RelationshipsReturned
    /\ QueriedEntity = <<"organization", 1>>
    /\ Len(relationships) = 2
    /\ SourceOf(relationships[1]) = <<"organization", 1>>
    /\ relationships[1].validTo = <<1>>
    /\ SourceOf(relationships[2]) = <<"agent", 1>>
    /\ TargetOf(relationships[2]) = <<"organization", 2>>
    /\ Len(response.rows) = 1
    /\ response.rows[1].relationshipId = 1
    /\ response.rows[1].validTo = <<1>>

-----------------------------------------------------------------------------
(* Properties of the hypergraph neighborhood (SpecHyper) *)

NeighborhoodReturned == response.kind = "neighborhood"

\* the incidences of hyperedge e whose node has a row
IncidencesOf(e) ==
    {i \in 1..Len(hypergraphIncidences) :
        /\ hypergraphIncidences[i].hyperedgeId = e
        /\ hypergraphIncidences[i].nodeId \in 1..Len(hypergraphNodes)}

\* C17: the neighborhood of a node has exactly one row for each hyperedge
\* that has an incidence with the node, and the participants of that row are
\* all the nodes incident to the hyperedge, the queried node and the others,
\* each with the role of its incidence.
C17_OneRowPerHyperedgeWithAllParticipants ==
    NeighborhoodReturned =>
        LET rows == response.rows
            ofNode == {e \in 1..Len(hypergraphHyperedges) :
                          \E i \in 1..Len(hypergraphIncidences) :
                             /\ hypergraphIncidences[i].hyperedgeId = e
                             /\ hypergraphIncidences[i].nodeId = response.nodeId}
        IN /\ \A e \in 1..Len(hypergraphHyperedges) :
                 CountSeq(rows, LAMBDA row : row.hyperedgeId = <<e>>) =
                    IF e \in ofNode THEN 1 ELSE 0
           /\ \A k \in 1..Len(rows) :
                 rows[k].hyperedgeId # <<>> =>
                    LET e == rows[k].hyperedgeId[1] IN
                    /\ Len(rows[k].participants) = Cardinality(IncidencesOf(e))
                    /\ \A i \in IncidencesOf(e) :
                          \E n \in 1..Len(rows[k].participants) :
                             /\ rows[k].participants[n].label =
                                   hypergraphNodes[hypergraphIncidences[i].nodeId].label
                             /\ <<rows[k].participants[n].role>> =
                                   hypergraphIncidences[i].role

-----------------------------------------------------------------------------
(* Properties of the stock-flow projection (SpecStock) *)

DynamicsReturned == response.kind = "dynamics"

\* the sum of currentRate (a NULL rate adds nothing) over a set of flow ids
RECURSIVE RateSum(_)
RateSum(ids) ==
    IF ids = {} THEN 0
    ELSE LET i == CHOOSE j \in ids : TRUE IN
         (IF flows[i].currentRate = <<>> THEN 0 ELSE flows[i].currentRate[1])
            + RateSum(ids \ {i})

FlowsInto(stockId) == {i \in 1..Len(flows) : flows[i].targetStockId = <<stockId>>}
FlowsOutOf(stockId) == {i \in 1..Len(flows) : flows[i].sourceStockId = <<stockId>>}

\* C18: each returned stock row reports totalInflow as the sum of currentRate
\* over the flows into the stock, totalOutflow as the sum over the flows out
\* of it, and projectedValue = currentValue + totalInflow - totalOutflow, not
\* clamped to minValue or maxValue.
C18_ProjectionIsValuePlusNetFlow ==
    DynamicsReturned =>
        \A k \in 1..Len(response.rows) :
            LET row == response.rows[k] IN
            /\ row.currentValue = stocks[row.stockId].currentValue
            /\ row.totalInflow = RateSum(FlowsInto(row.stockId))
            /\ row.totalOutflow = RateSum(FlowsOutOf(row.stockId))
            /\ row.projectedValue =
                  stocks[row.stockId].currentValue
                     + RateSum(FlowsInto(row.stockId))
                     - RateSum(FlowsOutOf(row.stockId))

\* a stock of 100 with the bounds 100..100, an inflow of 5 and an outflow of
\* 3 is projected at 102, above its maxValue
C18_Witness ==
    /\ DynamicsReturned
    /\ \E k \in 1..Len(response.rows) :
          /\ response.rows[k].currentValue = 100
          /\ response.rows[k].totalInflow = 5
          /\ response.rows[k].totalOutflow = 3
          /\ response.rows[k].projectedValue = 102
          /\ stocks[response.rows[k].stockId].maxValue = <<100>>

\* C19: the result has exactly one row for every stock of the queried entity
\* and no other row; a stock that no flow names as source or target has
\* totalInflow = totalOutflow = 0 and projectedValue = currentValue, whatever
\* dangling flows and flows of other stocks exist.
C19_OneRowPerOwnedStock ==
    DynamicsReturned =>
        /\ \A stockId \in 1..Len(stocks) :
              CountSeq(response.rows, LAMBDA row : row.stockId = stockId) =
                 IF /\ stocks[stockId].entityType = response.entityType
                    /\ stocks[stockId].entityId = response.entityId
                 THEN 1 ELSE 0
        /\ \A k \in 1..Len(response.rows) :
              LET row == response.rows[k] IN
              /\ row.stockId \in 1..Len(stocks)
              /\ (FlowsInto(row.stockId) \cup FlowsOutOf(row.stockId) = {}) =>
                    /\ row.totalInflow = 0
                    /\ row.totalOutflow = 0
                    /\ row.projectedValue = stocks[row.stockId].currentValue

\* stock 1 has no flow of its own; a dangling flow and a flow on stock 2
\* exist; the row of stock 1 has no inflow, no outflow and projects to 100
C19_Witness ==
    /\ DynamicsReturned
    /\ Len(stocks) = 2
    /\ \E i \in 1..Len(flows) :
          /\ flows[i].sourceStockId = <<>>
          /\ flows[i].targetStockId = <<>>
          /\ flows[i].currentRate = <<5>>
    /\ \E i \in 1..Len(flows) :
          /\ flows[i].targetStockId = <<2>>
          /\ flows[i].currentRate = <<3>>
    /\ \E k \in 1..Len(response.rows) :
          response.rows[k] = [stockId |-> 1, currentValue |-> 100, totalInflow |-> 0,
                              totalOutflow |-> 0, projectedValue |-> 100]

-----------------------------------------------------------------------------
(* Properties of the routes when the store cannot be reached (SpecStore) *)

\* the store cannot be reached by the request about to run: getDb() has no
\* handle to give, or the server behind the handle does not answer
StoreUnavailable == getDb(db, databaseUrl) = "null" \/ ~storeUp

\* every table of the store
storeTables == <<organizations, nextOrgId, shareholding, debts, nextDebtId,
                 debtPayments, netVars>>

\* The part that holds: without a handle (getDb() returns null) every read
\* returns an empty sequence and every mutating route throws before it writes
WithoutHandleReadsEmptyWritesFail ==
    [][getDb(db, databaseUrl) = "null" =>
          /\ StoreReads =>
                /\ response'.kind # "error"
                /\ response'.rows = <<>>
          /\ StoreWrites =>
                /\ response' = DatabaseNotAvailable
                /\ UNCHANGED storeTables]_vars

\* C20: when the store is unavailable, every read (getEffectiveOwnership,
\* getRelationshipsByEntity, getHypergraphNeighborhood, getStockFlowDynamics,
\* debts.list, debts.getPayments) returns an empty sequence without raising,
\* and addPayment and the other mutating routes fail with an error, record
\* nothing and do not report success.
C20_ReadsEmptyWritesFail ==
    [][StoreUnavailable =>
          /\ StoreReads =>
                /\ response'.kind # "error"
                /\ response'.rows = <<>>
          /\ StoreWrites =>
                /\ response'.kind = "error"
                /\ UNCHANGED storeTables]_vars

-----------------------------------------------------------------------------
(* Validation of debts.addPayment's input (Spec) *)

\* C21: an addPayment with a negative amount fails before any store access:
\* no payment row is appended and no debt's remainingAmount or status changes.
C21_NegativeAmountRejected ==
    [][\A input \in AddPaymentInputs :
         (DebtsAddPayment(input) /\ input.amount < 0) =>
            /\ response'.kind = "error"
            /\ debtPayments' = debtPayments
            /\ debts' = debts]_vars

-----------------------------------------------------------------------------
(* The organization hierarchy: organizations.create, update and delete with   *)
(* a parentId (SpecOrg)                                                       *)

\* organizations created in SpecOrg
MaxOrgs == 3

\* db.update(organizations).set(data).where(id = ?): the fields present in
\* data are overwritten; no row with that id: nothing changes
updateOrganization(tbl, id, data) ==
    [i \in DOMAIN tbl |->
        IF i = id
        THEN [f \in DOMAIN tbl[i] |->
                 IF f \in DOMAIN data THEN data[f] ELSE tbl[i][f]]
        ELSE tbl[i]]

\* db.delete(organizations).where(id = ?): the table has no foreign key on
\* parentId, the rows that name the deleted row as parent are kept as they are
deleteOrganization(tbl, id) ==
    [i \in DOMAIN tbl \ {id} |-> tbl[i]]

\* parentId: z.number().optional() on create, .nullable().optional() on
\* update; <<>> is an absent or null parentId
ParentIdInputs == {<<>>} \cup {<<i>> : i \in 1..MaxOrgs}

\* organizations.create
OrganizationsCreateUnder(parentId) ==
    /\ organizations' = createOrganization(organizations, nextOrgId,
                                           [parentId |-> parentId])
    /\ nextOrgId' = nextOrgId + 1
    /\ response' = DbResult
    /\ UNCHANGED <<shareholding, debtVars, netVars, envVars, initialRemaining>>
    /\ db' = getDb(db, databaseUrl)

\* organizations.update
OrganizationsUpdate(id, data) ==
    /\ organizations' = updateOrganization(organizations, id, data)
    /\ response' = DbResult
    /\ UNCHANGED <<nextOrgId, shareholding, debtVars, netVars, envVars,
                   initialRemaining>>
    /\ db' = getDb(db, databaseUrl)

\* organizations.delete
OrganizationsDelete(id) ==
    /\ organizations' = deleteOrganization(organizations, id)
    /\ response' = DbResult
    /\ UNCHANGED <<nextOrgId, shareholding, debtVars, netVars, envVars,
                   initialRemaining>>
    /\ db' = getDb(db, databaseUrl)

OrgCreate == \E parentId \in ParentIdInputs :
    /\ nextOrgId <= MaxOrgs
    /\ OrganizationsCreateUnder(parentId)

OrgUpdate == \E id \in 1..MaxOrgs, parentId \in ParentIdInputs :
    OrganizationsUpdate(id, [parentId |-> parentId])

OrgDelete == \E id \in 1..MaxOrgs :
    OrganizationsDelete(id)

NextOrg == OrgCreate \/ OrgUpdate \/ OrgDelete

SpecOrg == Init /\ [][NextOrg]_vars

\* following parentId links from the organization named by from (<<>>: none)
\* reaches the organization to, within the given number of steps
RECURSIVE reachesByParent(_, _, _, _)
reachesByParent(tbl, from, to, steps) ==
    IF from = <<>> \/ steps = 0 THEN FALSE
    ELSE IF from[1] = to THEN TRUE
    ELSE IF from[1] \notin DOMAIN tbl THEN FALSE
    ELSE reachesByParent(tbl, tbl[from[1]].parentId, to, steps - 1)

\* organization i is reached from itself by following parentId links
IsOwnAncestor(i) ==
    reachesByParent(organizations, organizations[i].parentId, i,
                    Cardinality(DOMAIN organizations) + 1)

\* C22: in every state reached through organizations.create, update and
\* delete the parentId links are acyclic: no organization is its own ancestor.
C22_ParentIdAcyclic ==
    \A i \in DOMAIN organizations : ~IsOwnAncestor(i)

-----------------------------------------------------------------------------
(* Properties of the shareholding table (SpecOwn) *)

\* C23: after any sequence of createShareholding calls there is at most one
\* row per (childOrgId, parentOrgId) pair, and every row has sharePercentage
\* in [0, 10000].
C23_UniquePairAndPercentageInRange ==
    /\ \A i, j \in 1..Len(shareholding) :
          (/\ shareholding[i].childOrgId = shareholding[j].childOrgId
           /\ shareholding[i].parentOrgId = shareholding[j].parentOrgId)
          => i = j
    /\ \A i \in 1..Len(shareholding) :
          /\ shareholding[i].sharePercentage >= 0
          /\ shareholding[i].sharePercentage <= BasisPoints

\* The part that holds: every stored row has sharePercentage in [0, 10000]
SharePercentageInRange ==
    \A i \in 1..Len(shareholding) :
        /\ shareholding[i].sharePercentage >= 0
        /\ shareholding[i].sharePercentage <= BasisPoints

-----------------------------------------------------------------------------
(* Cycles in the shareholding graph (SpecOwn) *)

\* the chain root, b, root, b, ... of d holdings around a cycle root->b->root
CycleChain(root, b, d) ==
    [k \in 1..(d + 1) |-> IF k % 2 = 1 THEN root ELSE b]

\* the effective ownership after d holdings taken in turn from the two rows
\* i (root holds b) and j (b holds root)
RECURSIVE CycleOwnership(_, _, _)
CycleOwnership(i, j, d) ==
    IF d = 1 THEN shareholding[i].sharePercentage
    ELSE chainOwnership(CycleOwnership(i, j, d - 1),
                        shareholding[IF d % 2 = 1 THEN i ELSE j].sharePercentage)

\* C24: cycles are not detected.  With holdings root->b and b->root, the
\* traversal has a row around the cycle at every depth up to maxDepth, the
\* root among the descendants, and nothing deeper; each of these rows is
\* returned when its organization exists and it carries at least 1%.  A
\* root that holds nothing gives an empty result.
C24_CycleCutOnlyByMaxDepth ==
    OwnershipReturned =>
        LET root == response.parentOrgId
            rows == response.rows
            oc == OwnershipChainQueried
        IN /\ \A i, j \in 1..Len(shareholding) :
                 (/\ shareholding[i].parentOrgId = root
                  /\ shareholding[j].parentOrgId = shareholding[i].childOrgId
                  /\ shareholding[j].childOrgId = root)
                 => \A d \in 1..response.maxDepth :
                       LET b == shareholding[i].childOrgId
                           child == IF d % 2 = 1 THEN b ELSE root
                           IsCycleRow(row) ==
                               /\ row.childOrgId = child
                               /\ row.depth = d
                               /\ row.chain = CycleChain(root, b, d)
                               /\ row.effectiveOwnership = CycleOwnership(i, j, d)
                       IN /\ \E k \in 1..Len(oc) : IsCycleRow(oc[k])
                          /\ (/\ CycleOwnership(i, j, d) >= MinEffectiveOwnership
                              /\ child \in DOMAIN organizations)
                             => \E k \in 1..Len(rows) : IsCycleRow(rows[k])
           /\ response.maxDepth >= 1 =>
                 \A k \in 1..Len(oc) : oc[k].depth <= response.maxDepth
           /\ (\A i \in 1..Len(shareholding) : shareholding[i].parentOrgId # root)
                 => rows = <<>>

\* A holds all of B and B holds all of A: the query for A with the default
\* depth of 10 returns ten rows, A itself at every even depth up to 10
C24_Witness ==
    /\ OwnershipReturned
    /\ response.parentOrgId = 1
    /\ response.maxDepth = DefaultMaxDepth
    /\ 1 \in DOMAIN organizations
    /\ 2 \in DOMAIN organizations
    /\ shareholding =
          << [childOrgId |-> 2, parentOrgId |-> 1, sharePercentage |-> 10000],
             [childOrgId |-> 1, parentOrgId |-> 2, sharePercentage |-> 10000] >>
    /\ Len(response.rows) = DefaultMaxDepth
    /\ \E k \in 1..Len(response.rows) :
          /\ response.rows[k].childOrgId = 1
          /\ response.rows[k].depth = DefaultMaxDepth
          /\ response.rows[k].effectiveOwnership = 10000

-----------------------------------------------------------------------------
(* A paid debt under concurrent addPayment calls (SpecRace) *)

\* C25: once a debt is stored as "paid" with nothing remaining, the write of
\* a concurrent addPayment (of a positive amount) on that debt leaves it
\* "paid" with remainingAmount 0, also when that call read the debt before
\* it was paid.
C25_PaidNotUndoneByStaleWrite ==
    [][\A c \in Callers :
         (/\ AddPaymentUpdateDebt(c)
          /\ call[c].amount > 0
          /\ call[c].debtId \in DOMAIN debts
          /\ debts[call[c].debtId].status = "paid"
          /\ debts[call[c].debtId].remainingAmount = 0) =>
            /\ debts'[call[c].debtId].status = "paid"
            /\ debts'[call[c].debtId].remainingAmount = 0]_vars

-----------------------------------------------------------------------------
(* What an addPayment touches: debts are created and paid on, one request at  *)
(* a time, while the server's clock advances (SpecFrame)                      *)

MaxDebtsFramed == 2
MaxPaymentsFramed == 2
\* seconds the clock advances
MaxNow == 1

\* addPayment never reads originalAmount: the debts all start from 2 of 2
FrameCreateInputs ==
    {input \in CreateInputs :
        input.originalAmount = 2 /\ input.remainingAmount = 2}

FrameCreate == \E input \in FrameCreateInputs :
    /\ nextDebtId <= MaxDebtsFramed
    /\ DebtsCreate(input)
    /\ UNCHANGED initialRemaining

FrameAddPayment == \E id \in DOMAIN debts, amount \in PaymentAmounts :
    /\ Len(debtPayments) < MaxPaymentsFramed
    /\ DebtsAddPayment([debtId |-> id, amount |-> amount])
    /\ UNCHANGED initialRemaining

\* a second passes on the server
ClockTicks ==
    /\ now < MaxNow
    /\ now' = now + 1
    /\ UNCHANGED <<orgVars, debtVars, netVars, db, databaseUrl, storeUp, response,
                   initialRemaining>>

NextFrame == FrameCreate \/ FrameAddPayment \/ ClockTicks

SpecFrame == Init /\ [][NextFrame]_vars

\* the fields of a debt row that an addPayment on it leaves as they are, when
\* it may change those in the set changed
AddPaymentKeeps(id, amount, changed) ==
    DebtsAddPayment([debtId |-> id, amount |-> amount]) =>
        /\ debtPayments' =
              Append(debtPayments, [debtId |-> id, amount |-> amount])
        /\ DOMAIN debts' = DOMAIN debts
        /\ \A i \in DOMAIN debts :
              i # id => debts'[i] = debts[i]
        /\ \A f \in DOMAIN debts[id] :
              f \notin changed => debts'[id][f] = debts[id][f]

\* C26 as stated: an addPayment(debtId, ...) appends exactly one payment row
\* and changes at most remainingAmount and status of the debt with that id:
\* every other field of that debt, and every field of every other debt, is
\* unchanged.
C26_OnlyRemainingAndStatusChange ==
    [][\A id \in DOMAIN debts, amount \in PaymentAmounts :
         AddPaymentKeeps(id, amount, {"remainingAmount", "status"})]_vars

\* C26: an addPayment(debtId, ...) appends exactly one payment row and
\* changes at most remainingAmount, status and the server-maintained
\* updatedAt of the debt with that id (updatedAt only when remainingAmount or
\* status changes): originalAmount and every field of every other debt are
\* unchanged.
C26_AddPaymentFrame ==
    [][\A id \in DOMAIN debts, amount \in PaymentAmounts :
         /\ AddPaymentKeeps(id, amount, {"remainingAmount", "status", "updatedAt"})
         /\ (/\ DebtsAddPayment([debtId |-> id, amount |-> amount])
             /\ debts'[id].remainingAmount = debts[id].remainingAmount
             /\ debts'[id].status = debts[id].status)
            => debts'[id].updatedAt = debts[id].updatedAt]_vars

\* two debts created at second 0; at second 1 the last request paid debt 1
\* down to "paid", which moved its updatedAt, and debt 2 is as it was created
C26_Witness ==
    /\ AddPaymentReturned
    /\ DOMAIN debts = {1, 2}
    /\ LastPayment.debtId = 1
    /\ \A k \in 1..Len(debtPayments) : debtPayments[k].debtId = 1
    /\ now = 1
    /\ debts[1] = [originalAmount |-> 2, remainingAmount |-> 0, status |-> "paid",
                   updatedAt |-> 1]
    /\ debts[2] = [originalAmount |-> 2, remainingAmount |-> 2, status |-> "active",
                   updatedAt |-> 0]

-----------------------------------------------------------------------------
(* Ownership along a chain never grows (SpecOwn) *)

\* C27: when every sharePercentage is within [0, 10000], every chain row at
\* depth k+1 carries at most the effectiveOwnership of the depth-k row it
\* extends, and every effectiveOwnership, returned or not, is at most 10000.
C27_OwnershipNeverGrows ==
    (/\ OwnershipReturned
     /\ \A i \in 1..Len(shareholding) :
           /\ shareholding[i].sharePercentage >= 0
           /\ shareholding[i].sharePercentage <= BasisPoints)
    => LET rows == response.rows
           oc == OwnershipChainQueried
       IN /\ \A k \in 1..Len(rows) :
                 /\ rows[k].effectiveOwnership <= BasisPoints
                 /\ \E j \in 1..Len(oc) :
                       /\ oc[j].chain = rows[k].chain
                       /\ oc[j].effectiveOwnership = rows[k].effectiveOwnership
          /\ \A k \in 1..Len(oc) :
                 /\ oc[k].effectiveOwnership <= BasisPoints
                 /\ oc[k].depth > 1 =>
                       \E j \in 1..Len(oc), i \in 1..Len(shareholding) :
                          /\ oc[j].depth = oc[k].depth - 1
                          /\ oc[j].chain = SubSeq(oc[k].chain, 1, Len(oc[k].chain) - 1)
                          /\ shareholding[i].parentOrgId = oc[j].childOrgId
                          /\ shareholding[i].childOrgId = oc[k].childOrgId
                          /\ shareholding[i].sharePercentage = oc[k].sharePercentage
                          /\ oc[j].effectiveOwnership >= oc[k].effectiveOwnership

\* A holds 40% of B and B holds 60% of C: C is returned at 2400 basis points,
\* below the 4000 of the row of B it extends, although its own holding is 6000
C27_Witness ==
    /\ OwnershipReturned
    /\ response.parentOrgId = 1
    /\ DOMAIN organizations = {1, 2, 3}
    /\ shareholding =
          << [childOrgId |-> 2, parentOrgId |-> 1, sharePercentage |-> 4000],
             [childOrgId |-> 3, parentOrgId |-> 2, sharePercentage |-> 6000] >>
    /\ response.rows =
          << [childOrgId |-> 2, effectiveOwnership |-> 4000, depth |-> 1,
              chain |-> <<1, 2>>],
             [childOrgId |-> 3, effectiveOwnership |-> 2400, depth |-> 2,
              chain |-> <<1, 2, 3>>] >>

-----------------------------------------------------------------------------
(* Participants without a role or without a node row (SpecHyper) *)

\* C28: a participant whose incidence has no role, or whose node row is
\* missing, still appears in the participants of its hyperedge: every
\* returned row lists as many participants as its hyperedge has incidences.
C28_ParticipantsCountIncidences ==
    NeighborhoodReturned =>
        \A k \in 1..Len(response.rows) :
            response.rows[k].hyperedgeId # <<>> =>
                Len(response.rows[k].participants) =
                    Cardinality({i \in 1..Len(hypergraphIncidences) :
                        hypergraphIncidences[i].hyperedgeId =
                            response.rows[k].hyperedgeId[1]})

-----------------------------------------------------------------------------
(* Flows of every type between the stocks of one entity (SpecConserve) *)

MaxFlowsConserved == 2

\* stocks of 100 without bounds, of organization 1 or of agent 1
ConserveStockInputs ==
    {input \in StockInputs : input.minValue = <<>>}

\* flows of type inflow or outflow, with a rate of 3 or none, between the
\* stocks 1 and 2 or with an end that names no stock
ConserveFlowInputs ==
    [sourceStockId : FlowStockInputs, targetStockId : FlowStockInputs,
     flowType : {"inflow", "outflow"}, currentRate : {<<>>, <<3>>}]

ConserveCreateStock == \E input \in ConserveStockInputs :
    /\ Len(stocks) + 1 \in StockIds
    /\ HypergraphCreateStock(input)

ConserveCreateFlow == \E input \in ConserveFlowInputs :
    /\ Len(flows) < MaxFlowsConserved
    /\ HypergraphCreateFlow(input)

ConserveGetStockFlowDynamics == \E owner \in StockOwners :
    HypergraphGetStockFlowDynamics(owner[1], owner[2])

NextConserve ==
    ConserveCreateStock \/ ConserveCreateFlow \/ ConserveGetStockFlowDynamics

SpecConserve == Init /\ [][NextConserve]_vars

\* the stocks of the entity queried
QueriedStocks ==
    {stockId \in 1..Len(stocks) :
        /\ stocks[stockId].entityType = response.entityType
        /\ stocks[stockId].entityId = response.entityId}

\* a flow touches the queried entity when one of its ends is a stock of the
\* entity, and is internal when both are
FlowTouches(f) ==
    \/ \E stockId \in QueriedStocks : f.sourceStockId = <<stockId>>
    \/ \E stockId \in QueriedStocks : f.targetStockId = <<stockId>>

FlowInternal(f) ==
    /\ \E stockId \in QueriedStocks : f.sourceStockId = <<stockId>>
    /\ \E stockId \in QueriedStocks : f.targetStockId = <<stockId>>

\* the sum of a field over the returned rows
RECURSIVE RowSum(_, _)
RowSum(rows, field) ==
    IF rows = <<>> THEN 0 ELSE Head(rows)[field] + RowSum(Tail(rows), field)

\* C29: a flow counts by its sourceStockId and targetStockId alone, whatever
\* its flowType: it is in totalOutflow of its source and totalInflow of its
\* target, and when every flow that touches the entity's stocks is internal
\* the projectedValues of the entity's stocks sum to their currentValues.
C29_InternalFlowsConserveValue ==
    DynamicsReturned =>
        /\ \A k \in 1..Len(response.rows) :
              LET row == response.rows[k] IN
              /\ row.totalInflow = RateSum(FlowsInto(row.stockId))
              /\ row.totalOutflow = RateSum(FlowsOutOf(row.stockId))
        /\ (\A i \in 1..Len(flows) : FlowTouches(flows[i]) => FlowInternal(flows[i]))
           => RowSum(response.rows, "projectedValue")
                 = RowSum(response.rows, "currentValue")

\* organization 1 has the stocks 1 and 2; a flow of 3 declared "inflow" runs
\* from stock 1 to stock 2 and a flow of 3 declared "outflow" from stock 2 to
\* itself: stock 1 projects to 97, stock 2 to 103, 200 in all
C29_Witness ==
    /\ DynamicsReturned
    /\ response.entityType = "organization"
    /\ QueriedStocks = {1, 2}
    /\ flows = << [sourceStockId |-> <<1>>, targetStockId |-> <<2>>,
                   flowType |-> "inflow", currentRate |-> <<3>>],
                  [sourceStockId |-> <<2>>, targetStockId |-> <<2>>,
                   flowType |-> "outflow", currentRate |-> <<3>>] >>
    /\ response.rows =
          << [stockId |-> 1, currentValue |-> 100, totalInflow |-> 0,
              totalOutflow |-> 3, projectedValue |-> 97],
             [stockId |-> 2, currentValue |-> 100, totalInflow |-> 6,
              totalOutflow |-> 3, projectedValue |-> 103] >>

-----------------------------------------------------------------------------
(* The payment ledger against the balance (SpecPay) *)

\* C30: for a debt created with remainingAmount = originalAmount and then
\* changed only by addPayment calls with positive amounts, one at a time, the
\* amounts of its payment rows sum to originalAmount - remainingAmount in
\* every state, over-payments and payments on a paid debt included.
C30_LedgerMatchesBalance ==
    \A id \in DOMAIN debts :
        initialRemaining[id] = debts[id].originalAmount =>
            PaidOn(id) = debts[id].originalAmount - debts[id].remainingAmount

=============================================================================
